---- MODULE Spec2Model ----
(***************************************************************************)
(* Model of the k6 performance-testing repository: the mock e-commerce API *)
(* (api/src/server.js), the k6 test scripts that drive it (purchase flow,  *)
(* api-crud, baseline, stress, spike, soak, auth stress, mixed workload)   *)
(* and the shell entry points (scripts/run-all.sh, run-quick.sh).          *)
(*                                                                         *)
(* Money is kept in integer cents: every price is produced by              *)
(* Math.round(x * 100) / 100 and every total by Math.round(t * 100) / 100, *)
(* so each is a whole number of cents.                                     *)
(***************************************************************************)
EXTENDS Integers, Sequences, FiniteSets, TLC

VARIABLES
  products,      \* db.products
  users,         \* db.users
  carts,         \* db.carts   (a Map: a function on the keys that are set)
  orders,        \* db.orders
  nextUuid,      \* number of uuidv4() calls made so far
  metrics,       \* metrics.requests, metrics.errors
  registered,    \* history: the (email, password, id) of every registration answered 201
  rateLimiter,   \* the rateLimiter Map: ip -> list of request times
  now,           \* Date.now()
  log,           \* history: every request seen by the rate-limit middleware
  vu,            \* purchase-flow.js: each virtual user's position in default()
  purchaseSuccess,  \* Counter('purchase_success')
  purchaseFailed,   \* Counter('purchase_failed')
  hist,          \* history: checkout requests answered 201, answered otherwise,
                 \*          and iterations that returned before the cart steps
  sh,            \* the shell running scripts/run-all.sh or scripts/run-quick.sh
  lat,           \* the last call of simulateDbLatency: what it read and computed
  k6,            \* the test script a load run executes, and what setup() returned
  it,            \* the iteration of that script in progress, with what it recorded
  crud,          \* api-crud.js: each virtual user's position in default()
  flight,        \* the requests whose handler awaits simulateDbLatency, and history:
                 \*          the requests answered, in the order of their answers
  rand           \* the last call of randomInt: its arguments, Math.random() and result

dbVars   == <<products, users, carts, orders, nextUuid>>
rateVars == <<rateLimiter, now, log>>
pfVars   == <<vu, purchaseSuccess, purchaseFailed, hist>>
vars     == <<products, users, carts, orders, nextUuid, metrics, registered,
              rateLimiter, now, log, vu, purchaseSuccess, purchaseFailed, hist, sh,
              lat, k6, it, crud, flight, rand>>
testVars == <<lat, k6, it, crud, flight, rand>>

----------------------------------------------------------------------------
(* Bounds of the model *)

\* RATE_LIMIT = parseInt(process.env.RATE_LIMIT || '1000'): run with a small limit
RATE_LIMIT == 2
\* the clock is observed at whole windows, one millisecond before and one after
MaxWindows == 1
\* number of client addresses
NumIPs == 2

\* generateProducts(1000): the catalog is generated with ProductCount products
ProductCount == 2
\* generateUsers(100): UserCount seeded users
UserCount == 3
\* users stored after registrations, at most
MaxRegistered == 1
\* units of quantity held by all carts together, at most
MaxUnits == 2
\* orders stored, at most
MaxOrders == 1
\* metrics.errors, at most
MaxErrors == 1
\* the seeded users whose token a client holds
NumClients == 2
\* virtual users of the purchase-flow test (stages ramp to 50)
NumVUs == 2
\* iterations of default() each virtual user runs
MaxIterations == 1
\* DEGRADATION_THRESHOLD = parseInt(process.env.DEGRADATION_THRESHOLD || '100'):
\* run with a small threshold
DEGRADATION_THRESHOLD == 2
\* the largest value of metrics.requests simulateDbLatency is called with
MaxLoad == 12
\* iterations of a load test run, at most
MaxRuns == 2
\* requests the server receives while others are in flight, at most
MaxArrivals == 3
\* Math.random() takes the values k / RandomGrain, k in 0..RandomGrain-1
RandomGrain == 10

(* Program constants *)
RATE_WINDOW_MS == 60000
JWT_SECRET == "perf-test-secret"
DB_LATENCY_MS == 10
MaxFactor == 5
\* stress test: const DEGRADATION_THRESHOLD_MS = 500
DEGRADATION_THRESHOLD_MS == 500
\* spike test: isSpikePeriod = currentVUs > 50
SpikeVUs == 50
\* spike test: if (!isSpikePeriod && duration < 200) recoveryTime.add(duration)
RecoveryMs == 200
DefaultLimit == 20
MaxLimit == 100

MaxReq == RATE_LIMIT + 2

IPs == {"10.0.0." \o ToString(i) : i \in 1..NumIPs}

TimeGrid == {t \in {k * RATE_WINDOW_MS + e : k \in 0..MaxWindows, e \in {-1, 0, 1}} : t >= 0}

----------------------------------------------------------------------------
(* Rate limiting: checkRateLimit and the first middleware *)

\* a plausible slip: the limit is tested before the current request is counted
checkRateLimit_testBeforePush(rl, ip, t) ==
  LET windowStart == t - RATE_WINDOW_MS
      rl1 == IF ip \in DOMAIN rl THEN rl ELSE rl @@ (ip :> <<>>)
      kept == SelectSeq(rl1[ip], LAMBDA time : time > windowStart)
  IN  [limiter |-> [rl1 EXCEPT ![ip] = Append(kept, t)],
       allowed |-> Len(kept) <= RATE_LIMIT]

\* checkRateLimit(ip) at time t on the Map rl: the new Map and the result
checkRateLimit(rl, ip, t) ==
  LET windowStart == t - RATE_WINDOW_MS
      rl1 == IF ip \in DOMAIN rl THEN rl ELSE rl @@ (ip :> <<>>)
      requests == Append(SelectSeq(rl1[ip], LAMBDA time : time > windowStart), t)
  IN  [limiter |-> [rl1 EXCEPT ![ip] = requests],
       allowed |-> Len(requests) <= RATE_LIMIT]

\* Date.now() moves forward between two requests
Tick ==
  /\ \E t \in TimeGrid : t > now /\ now' = t
  /\ UNCHANGED <<dbVars, metrics, registered, rateLimiter, log, pfVars, sh, testVars>>

\* the rate-limit middleware followed, when it calls next(), by GET /health
\* (res.json({status: 'ok', ...}), status 200)
HealthRequest(ip) ==
  LET r == checkRateLimit(rateLimiter, ip, now) IN
  /\ metrics.requests < MaxReq
  /\ rateLimiter' = r.limiter
  /\ metrics' = [requests |-> metrics.requests + 1,
                 errors |-> IF r.allowed THEN metrics.errors ELSE metrics.errors + 1]
  /\ log' = Append(log, [ip |-> ip, time |-> now, handled |-> r.allowed,
                         status |-> IF r.allowed THEN 200 ELSE 429])
  /\ UNCHANGED <<dbVars, registered, now, pfVars, sh, testVars>>

----------------------------------------------------------------------------
(* simulateDbLatency: degradation under load *)

\* a non-negative rational number
Frac(n, d) == [n |-> n, d |-> d]
FracLeq(x, y) == x.n * y.d <= y.n * x.d
FracEq(x, y) == x.n * y.d = y.n * x.d

\* a mutant: the multiplier is not capped
degradationFactor_uncapped(requests, elapsed) ==
  IF elapsed = 0
    THEN IF requests = 0 THEN Frac(1, 1) ELSE Frac(MaxFactor, 1)
    ELSE IF requests * 1000 > DEGRADATION_THRESHOLD * elapsed
      THEN Frac(requests * 1000, elapsed * DEGRADATION_THRESHOLD)
      ELSE Frac(1, 1)

\* degradationFactor, for metrics.requests = requests and Date.now() -
\* metrics.startTime = elapsed ms: currentRps = requests / (elapsed / 1000) is
\* Infinity when elapsed is 0 (NaN when requests is 0 too, and NaN > x is false)
degradationFactor(requests, elapsed) ==
  IF elapsed = 0
    THEN IF requests = 0 THEN Frac(1, 1) ELSE Frac(MaxFactor, 1)
    ELSE IF requests * 1000 > DEGRADATION_THRESHOLD * elapsed
      THEN IF requests * 1000 < MaxFactor * elapsed * DEGRADATION_THRESHOLD
             THEN Frac(requests * 1000, elapsed * DEGRADATION_THRESHOLD)
             ELSE Frac(MaxFactor, 1)
      ELSE Frac(1, 1)

\* the delay of simulateDbLatency(baseLatency) in ms:
\* baseLatency * degradationFactor + Math.random() * 5
simulateDbLatency(baseLatency, requests, elapsed, random) ==
  LET f == degradationFactor(requests, elapsed) IN
  Frac(baseLatency * f.n + random * f.d, f.d)

\* the base latencies the handlers pass: the default, cart, orders, search, report
BaseLatencies == {DB_LATENCY_MS, 15, 50, 30, 200}

\* the values of Date.now() - metrics.startTime, in ms
ElapsedTimes == {0, 100, 250, 500, 1000, 2000, 4000}

\* a handler awaits simulateDbLatency
Latency ==
  /\ \E baseLatency \in BaseLatencies, requests \in 1..MaxLoad,
        elapsed \in ElapsedTimes, random \in {0, 4} :
       lat' = [requests |-> requests, elapsed |-> elapsed,
               factor |-> degradationFactor(requests, elapsed),
               baseLatency |-> baseLatency,
               delay |-> simulateDbLatency(baseLatency, requests, elapsed, random)]
  /\ UNCHANGED <<dbVars, metrics, registered, rateVars, pfVars, sh, k6, it, crud, flight, rand>>

----------------------------------------------------------------------------
(* Mock data: generateProducts, generateUsers, db *)

\* the draws of Math.random() that generateProducts consumes: per product the
\* price in cents (1000..51000), the stock (0..999) and the category
RandomDraws ==
  { [price |-> [i \in 1..ProductCount |-> 1000 + 599 * i],
     stock |-> [i \in 1..ProductCount |-> i - 1],
     category |-> [i \in 1..ProductCount |-> "books"]],
    [price |-> [i \in 1..ProductCount |-> 51000 - i],
     stock |-> [i \in 1..ProductCount |-> 999],
     category |-> [i \in 1..ProductCount |-> "home"]] }

generateProducts(count, rnd) ==
  [i \in 1..count |->
     [id |-> ToString(i), name |-> "Product " \o ToString(i),
      price |-> rnd.price[i], stock |-> rnd.stock[i], category |-> rnd.category[i]]]

generateUsers(count) ==
  [i \in 1..count |->
     [id |-> ToString(i), email |-> "user" \o ToString(i) \o "@test.com",
      password |-> "password123", name |-> "User " \o ToString(i)]]

\* uuidv4(): a value no earlier call returned
uuidv4(db) == "uuid-" \o ToString(db.nextUuid + 1)

Range(f) == {f[i] : i \in DOMAIN f}

\* array.find(pred) as the index of the first element satisfying pred, 0 if none
FindIndex(seq, Pred(_)) ==
  LET S == {i \in DOMAIN seq : Pred(seq[i])} IN
  IF S = {} THEN 0 ELSE CHOOSE i \in S : \A j \in S : i <= j

\* a field of a JSON body that is present and not the empty string (truthy)
Truthy(body, f) == f \in DOMAIN body /\ body[f] # ""

----------------------------------------------------------------------------
(* Tokens and the authenticate middleware *)

NoToken == [id |-> "", email |-> "", secret |-> "", expired |-> FALSE]
NoAuth == [scheme |-> "none", token |-> NoToken]

\* jwt.sign({id, email}, JWT_SECRET, {expiresIn: '1h'})
jwtSign(id, email) == [id |-> id, email |-> email, secret |-> JWT_SECRET, expired |-> FALSE]

\* jwt.verify(token, JWT_SECRET) does not throw
jwtVerify(token) == token.secret = JWT_SECRET /\ ~token.expired

\* getAuthHeaders(token): Authorization: `Bearer ${token}`
getAuthHeaders(token) == [scheme |-> "Bearer", token |-> token]

\* a mutant: any Bearer header is accepted
authenticate_noVerify(h) ==
  IF h.scheme # "Bearer"
    THEN [ok |-> FALSE, error |-> "Unauthorized", id |-> ""]
    ELSE [ok |-> TRUE, error |-> "", id |-> h.token.id]

\* authenticate: the outcome for an Authorization header h
authenticate(h) ==
  IF h.scheme # "Bearer"
    THEN [ok |-> FALSE, error |-> "Unauthorized", id |-> ""]
    ELSE IF ~jwtVerify(h.token)
      THEN [ok |-> FALSE, error |-> "Invalid token", id |-> ""]
      ELSE [ok |-> TRUE, error |-> "", id |-> h.token.id]

\* the server's state as one value
Db == [products |-> products, users |-> users, carts |-> carts, orders |-> orders,
       nextUuid |-> nextUuid, errors |-> metrics.errors]

\* an error response: metrics.errors++; return res.status(status).json({ error })
Fail(db, op, status, user, error) ==
  [op |-> op, status |-> status, user |-> user, body |-> [error |-> error],
   db |-> [db EXCEPT !.errors = @ + 1]]

\* res.json(body) / res.status(status).json(body), with the state the handler leaves
Reply(db, op, status, user, body) ==
  [op |-> op, status |-> status, user |-> user, body |-> body, db |-> db]

----------------------------------------------------------------------------
(* Auth endpoints *)

\* a mutant: the password is not compared
Login_anyPassword(db, body) ==
  LET op == "POST /api/auth/login"
      i == FindIndex(db.users, LAMBDA u : u.email = body.email) IN
  IF ~Truthy(body, "email") \/ ~Truthy(body, "password")
    THEN Fail(db, op, 400, "", "Email and password required")
    ELSE IF i = 0
      THEN Fail(db, op, 401, "", "Invalid credentials")
      ELSE Reply(db, op, 200, "",
                 [token |-> jwtSign(db.users[i].id, db.users[i].email),
                  user |-> [id |-> db.users[i].id, email |-> db.users[i].email,
                            name |-> db.users[i].name]])

\* app.post('/api/auth/login')
Login(db, body) ==
  LET op == "POST /api/auth/login"
      i == FindIndex(db.users, LAMBDA u : u.email = body.email) IN
  IF ~Truthy(body, "email") \/ ~Truthy(body, "password")
    THEN Fail(db, op, 400, "", "Email and password required")
    ELSE IF i = 0 \/ (i # 0 /\ db.users[i].password # body.password)
      THEN Fail(db, op, 401, "", "Invalid credentials")
      ELSE Reply(db, op, 200, "",
                 [token |-> jwtSign(db.users[i].id, db.users[i].email),
                  user |-> [id |-> db.users[i].id, email |-> db.users[i].email,
                            name |-> db.users[i].name]])

\* a mutant: the new user is stored with the seeded default password
Register_defaultPassword(db, body) ==
  LET op == "POST /api/auth/register" IN
  IF ~Truthy(body, "email") \/ ~Truthy(body, "password") \/ ~Truthy(body, "name")
    THEN Fail(db, op, 400, "", "All fields required")
    ELSE IF FindIndex(db.users, LAMBDA u : u.email = body.email) # 0
      THEN Fail(db, op, 409, "", "Email already exists")
      ELSE LET user == [id |-> uuidv4(db), email |-> body.email,
                        password |-> "password123", name |-> body.name] IN
           Reply([db EXCEPT !.users = Append(@, user), !.nextUuid = @ + 1], op, 201, "",
                 [token |-> jwtSign(user.id, body.email),
                  user |-> [id |-> user.id, email |-> body.email, name |-> body.name]])

\* a mutant: the new user is stored without looking for the email among the users
Register_noDuplicateCheck(db, body) ==
  LET op == "POST /api/auth/register" IN
  IF ~Truthy(body, "email") \/ ~Truthy(body, "password") \/ ~Truthy(body, "name")
    THEN Fail(db, op, 400, "", "All fields required")
    ELSE LET user == [id |-> uuidv4(db), email |-> body.email,
                      password |-> body.password, name |-> body.name] IN
         Reply([db EXCEPT !.users = Append(@, user), !.nextUuid = @ + 1], op, 201, "",
               [token |-> jwtSign(user.id, body.email),
                user |-> [id |-> user.id, email |-> body.email, name |-> body.name]])

\* app.post('/api/auth/register')
Register(db, body) ==
  LET op == "POST /api/auth/register" IN
  IF ~Truthy(body, "email") \/ ~Truthy(body, "password") \/ ~Truthy(body, "name")
    THEN Fail(db, op, 400, "", "All fields required")
    ELSE IF FindIndex(db.users, LAMBDA u : u.email = body.email) # 0
      THEN Fail(db, op, 409, "", "Email already exists")
      ELSE LET user == [id |-> uuidv4(db), email |-> body.email,
                        password |-> body.password, name |-> body.name] IN
           Reply([db EXCEPT !.users = Append(@, user), !.nextUuid = @ + 1], op, 201, "",
                 [token |-> jwtSign(user.id, body.email),
                  user |-> [id |-> user.id, email |-> body.email, name |-> body.name]])

----------------------------------------------------------------------------
(* Products endpoints *)

Min(a, b) == IF a < b THEN a ELSE b

\* array.slice(from, to) with 0-based from (inclusive) and to (exclusive)
Slice(seq, from, to) ==
  IF from >= Len(seq) THEN <<>> ELSE SubSeq(seq, from + 1, Min(to, Len(seq)))

\* every name is `Product ${i}`, every description `Description for product ${i}.
\* High quality item with excellent features.`
NameIncludes(term) == term \in {"product"}
DescriptionIncludes(term) == term \in {"product", "quality"}

\* app.get('/api/products') for a query without sort: the filters on category,
\* minPrice, maxPrice (prices in cents) and search, then the page;
\* parseInt(x) || default is the default for a missing value and for 0
GetProducts(db, query) ==
  LET filtered ==
        SelectSeq(db.products, LAMBDA p :
          /\ ("category" \in DOMAIN query /\ query.category # "")
               => p.category = query.category
          /\ "minPrice" \in DOMAIN query => p.price >= 100 * query.minPrice
          /\ "maxPrice" \in DOMAIN query => p.price <= 100 * query.maxPrice
          /\ ("search" \in DOMAIN query /\ query.search # "")
               => NameIncludes(query.search) \/ DescriptionIncludes(query.search))
      page == IF "page" \in DOMAIN query /\ query.page # 0 THEN query.page ELSE 1
      limit == Min(IF "limit" \in DOMAIN query /\ query.limit # 0
                     THEN query.limit ELSE DefaultLimit, MaxLimit)
      startIndex == (page - 1) * limit IN
  Reply(db, "GET /api/products", 200, "",
        [data |-> Slice(filtered, startIndex, startIndex + limit),
         pagination |-> [page |-> page, limit |-> limit, total |-> Len(filtered)]])

\* a mutant: the lookup is by position in the array, which starts at 0
GetProduct_zeroBased(db, id) ==
  LET op == "GET /api/products/:id"
      i == FindIndex(db.products, LAMBDA p : p.id = id) IN
  IF i = 0 \/ i = 1
    THEN Fail(db, op, 404, "", "Product not found")
    ELSE Reply(db, op, 200, "", db.products[i - 1])

\* app.get('/api/products/:id')
GetProduct(db, id) ==
  LET op == "GET /api/products/:id"
      i == FindIndex(db.products, LAMBDA p : p.id = id) IN
  IF i = 0
    THEN Fail(db, op, 404, "", "Product not found")
    ELSE Reply(db, op, 200, "", db.products[i])

----------------------------------------------------------------------------
(* Cart endpoints *)

EmptyCart == [items |-> <<>>, total |-> 0]

\* Map.set(key, value)
MapSet(map, key, value) == (key :> value) @@ map

RECURSIVE CartTotal(_)
\* cart.total: items.reduce((sum, item) => sum + item.price * item.quantity, 0),
\* rounded to cents (the sum of whole cents is a whole number of cents)
CartTotal(items) ==
  IF items = <<>> THEN 0
  ELSE CartTotal(SubSeq(items, 1, Len(items) - 1))
         + items[Len(items)].price * items[Len(items)].quantity

\* db.carts.get(id) || { items: [], total: 0 }
CartOf(db, id) == IF id \in DOMAIN db.carts THEN db.carts[id] ELSE EmptyCart

\* app.get('/api/cart')
GetCart(db, h) ==
  LET op == "GET /api/cart"
      a == authenticate(h) IN
  IF ~a.ok
    THEN Fail(db, op, 401, "", a.error)
    ELSE Reply(db, op, 200, a.id, CartOf(db, a.id))

\* a mutant: a new line is pushed even when the product is already in the cart
PostCartItems_alwaysPush(db, h, body) ==
  LET op == "POST /api/cart/items"
      a == authenticate(h) IN
  IF ~a.ok
    THEN Fail(db, op, 401, "", a.error)
    ELSE IF ~Truthy(body, "productId")
      THEN Fail(db, op, 400, a.id, "Product ID required")
      ELSE LET p == FindIndex(db.products, LAMBDA x : x.id = body.productId) IN
        IF p = 0
          THEN Fail(db, op, 404, a.id, "Product not found")
          ELSE LET quantity == IF "quantity" \in DOMAIN body THEN body.quantity ELSE 1
                   cart == CartOf(db, a.id)
                   items == Append(cart.items,
                              [productId |-> body.productId, name |-> db.products[p].name,
                               price |-> db.products[p].price, quantity |-> quantity])
                   new == [items |-> items, total |-> CartTotal(items)] IN
               Reply([db EXCEPT !.carts = MapSet(@, a.id, new)], op, 200, a.id, new)

\* app.post('/api/cart/items')
PostCartItems(db, h, body) ==
  LET op == "POST /api/cart/items"
      a == authenticate(h) IN
  IF ~a.ok
    THEN Fail(db, op, 401, "", a.error)
    ELSE IF ~Truthy(body, "productId")
      THEN Fail(db, op, 400, a.id, "Product ID required")
      ELSE LET p == FindIndex(db.products, LAMBDA x : x.id = body.productId) IN
        IF p = 0
          THEN Fail(db, op, 404, a.id, "Product not found")
          ELSE LET quantity == IF "quantity" \in DOMAIN body THEN body.quantity ELSE 1
                   cart == CartOf(db, a.id)
                   e == FindIndex(cart.items, LAMBDA i : i.productId = body.productId)
                   items == IF e # 0
                              THEN [cart.items EXCEPT ![e].quantity = @ + quantity]
                              ELSE Append(cart.items,
                                     [productId |-> body.productId,
                                      name |-> db.products[p].name,
                                      price |-> db.products[p].price,
                                      quantity |-> quantity])
                   new == [items |-> items, total |-> CartTotal(items)] IN
               Reply([db EXCEPT !.carts = MapSet(@, a.id, new)], op, 200, a.id, new)

\* a mutant: the lines are removed and the total is left as it was
DeleteCartItem_staleTotal(db, h, productId) ==
  LET op == "DELETE /api/cart/items/:productId"
      a == authenticate(h) IN
  IF ~a.ok
    THEN Fail(db, op, 401, "", a.error)
    ELSE IF a.id \notin DOMAIN db.carts
      THEN Fail(db, op, 404, a.id, "Cart not found")
      ELSE LET items == SelectSeq(db.carts[a.id].items, LAMBDA i : i.productId # productId)
               new == [items |-> items, total |-> db.carts[a.id].total] IN
           Reply([db EXCEPT !.carts = MapSet(@, a.id, new)], op, 200, a.id, new)

\* app.delete('/api/cart/items/:productId')
DeleteCartItem(db, h, productId) ==
  LET op == "DELETE /api/cart/items/:productId"
      a == authenticate(h) IN
  IF ~a.ok
    THEN Fail(db, op, 401, "", a.error)
    ELSE IF a.id \notin DOMAIN db.carts
      THEN Fail(db, op, 404, a.id, "Cart not found")
      ELSE LET items == SelectSeq(db.carts[a.id].items, LAMBDA i : i.productId # productId)
               new == [items |-> items, total |-> CartTotal(items)] IN
           Reply([db EXCEPT !.carts = MapSet(@, a.id, new)], op, 200, a.id, new)

----------------------------------------------------------------------------
(* Orders endpoints *)

\* a mutant: the cart is left as it was after the order is stored
PostOrders_keepCart(db, h) ==
  LET op == "POST /api/orders"
      a == authenticate(h) IN
  IF ~a.ok
    THEN Fail(db, op, 401, "", a.error)
    ELSE IF a.id \notin DOMAIN db.carts \/ Len(CartOf(db, a.id).items) = 0
      THEN Fail(db, op, 400, a.id, "Cart is empty")
      ELSE LET cart == db.carts[a.id]
               order == [id |-> uuidv4(db), userId |-> a.id, items |-> cart.items,
                         total |-> cart.total, status |-> "confirmed"] IN
           Reply([db EXCEPT !.orders = Append(@, order), !.nextUuid = @ + 1],
                 op, 201, a.id, order)

\* a mutant: storing an order takes the ordered units out of the products' stock
PostOrders_takeStock(db, h) ==
  LET op == "POST /api/orders"
      a == authenticate(h) IN
  IF ~a.ok
    THEN Fail(db, op, 401, "", a.error)
    ELSE IF a.id \notin DOMAIN db.carts \/ Len(CartOf(db, a.id).items) = 0
      THEN Fail(db, op, 400, a.id, "Cart is empty")
      ELSE LET cart == db.carts[a.id]
               order == [id |-> uuidv4(db), userId |-> a.id, items |-> cart.items,
                         total |-> cart.total, status |-> "confirmed"] IN
           Reply([db EXCEPT !.orders = Append(@, order), !.nextUuid = @ + 1,
                            !.carts = MapSet(@, a.id, EmptyCart),
                            !.products = [i \in DOMAIN db.products |->
                               IF \E l \in DOMAIN cart.items :
                                    cart.items[l].productId = db.products[i].id
                                 THEN [db.products[i] EXCEPT !.stock = @ - 1]
                                 ELSE db.products[i]]],
                 op, 201, a.id, order)

\* app.post('/api/orders')
PostOrders(db, h) ==
  LET op == "POST /api/orders"
      a == authenticate(h) IN
  IF ~a.ok
    THEN Fail(db, op, 401, "", a.error)
    ELSE IF a.id \notin DOMAIN db.carts \/ Len(CartOf(db, a.id).items) = 0
      THEN Fail(db, op, 400, a.id, "Cart is empty")
      ELSE LET cart == db.carts[a.id]
               order == [id |-> uuidv4(db), userId |-> a.id, items |-> cart.items,
                         total |-> cart.total, status |-> "confirmed"] IN
           Reply([db EXCEPT !.orders = Append(@, order), !.nextUuid = @ + 1,
                            !.carts = MapSet(@, a.id, EmptyCart)],
                 op, 201, a.id, order)

\* app.get('/api/orders')
GetOrders(db, h) ==
  LET op == "GET /api/orders"
      a == authenticate(h) IN
  IF ~a.ok
    THEN Fail(db, op, 401, "", a.error)
    ELSE LET mine == SelectSeq(db.orders, LAMBDA o : o.userId = a.id) IN
         Reply(db, op, 200, a.id, [data |-> mine, total |-> Len(mine)])

\* a mutant: the order is looked up by its id alone
GetOrder_anyOwner(db, h, id) ==
  LET op == "GET /api/orders/:id"
      a == authenticate(h) IN
  IF ~a.ok
    THEN Fail(db, op, 401, "", a.error)
    ELSE LET i == FindIndex(db.orders, LAMBDA o : o.id = id) IN
      IF i = 0
        THEN Fail(db, op, 404, a.id, "Order not found")
        ELSE Reply(db, op, 200, a.id, db.orders[i])

\* app.get('/api/orders/:id')
GetOrder(db, h, id) ==
  LET op == "GET /api/orders/:id"
      a == authenticate(h) IN
  IF ~a.ok
    THEN Fail(db, op, 401, "", a.error)
    ELSE LET i == FindIndex(db.orders, LAMBDA o : o.id = id /\ o.userId = a.id) IN
      IF i = 0
        THEN Fail(db, op, 404, a.id, "Order not found")
        ELSE Reply(db, op, 200, a.id, db.orders[i])

----------------------------------------------------------------------------
(* Search and report endpoints *)

\* text.toLowerCase().includes(term), for the terms the test scripts search for:
CategoryIncludes(category, term) ==
  \/ term = category
  \/ category = "books" /\ term = "book"

\* app.get('/api/search'): no error response; at most 50 results
Search(db, query) ==
  LET op == "GET /api/search" IN
  IF "q" \notin DOMAIN query \/ query.q \in {"", "a"}
    THEN Reply(db, op, 200, "", [products |-> <<>>, total |-> 0])
    ELSE LET results == Slice(SelectSeq(db.products,
                                        LAMBDA p : \/ NameIncludes(query.q)
                                                   \/ DescriptionIncludes(query.q)
                                                   \/ CategoryIncludes(p.category, query.q)),
                              0, 50) IN
         Reply(db, op, 200, "", [products |-> results, total |-> Len(results)])

RECURSIVE OrdersTotal(_)
\* db.orders.reduce((sum, o) => sum + o.total, 0)
OrdersTotal(list) ==
  IF list = <<>> THEN 0
  ELSE OrdersTotal(SubSeq(list, 1, Len(list) - 1)) + list[Len(list)].total

\* app.get('/api/reports/sales'): amounts in cents, the average rounded to a cent
SalesReport(db, h) ==
  LET op == "GET /api/reports/sales"
      a == authenticate(h)
      totalSales == OrdersTotal(db.orders)
      orderCount == Len(db.orders) IN
  IF ~a.ok
    THEN Fail(db, op, 401, "", a.error)
    ELSE Reply(db, op, 200, a.id,
               [totalSales |-> totalSales, orderCount |-> orderCount,
                averageOrderValue |->
                  IF orderCount > 0
                    THEN (2 * totalSales + orderCount) \div (2 * orderCount)
                    ELSE 0])

----------------------------------------------------------------------------
(* Routing: the routes registered on app, in order, and a request's dispatch *)

Routes ==
  << [method |-> "GET",    path |-> <<"health">>],
     [method |-> "POST",   path |-> <<"api", "auth", "login">>],
     [method |-> "POST",   path |-> <<"api", "auth", "register">>],
     [method |-> "GET",    path |-> <<"api", "products">>],
     [method |-> "GET",    path |-> <<"api", "products", ":id">>],
     [method |-> "GET",    path |-> <<"api", "cart">>],
     [method |-> "POST",   path |-> <<"api", "cart", "items">>],
     [method |-> "DELETE", path |-> <<"api", "cart", "items", ":productId">>],
     [method |-> "POST",   path |-> <<"api", "orders">>],
     [method |-> "GET",    path |-> <<"api", "orders">>],
     [method |-> "GET",    path |-> <<"api", "orders", ":id">>],
     [method |-> "GET",    path |-> <<"api", "search">>],
     [method |-> "GET",    path |-> <<"api", "reports", "sales">>] >>

IsParam(segment) == segment \in {":id", ":productId"}

\* the route pattern matches the request's method and path
Matches(route, method, path) ==
  /\ route.method = method
  /\ Len(route.path) = Len(path)
  /\ \A i \in DOMAIN path : IsParam(route.path[i]) \/ route.path[i] = path[i]

\* the pattern of a route, as written in the source
Pattern(route) ==
  LET P == route.path IN
  route.method \o " /" \o
    (IF Len(P) = 1 THEN P[1]
     ELSE IF Len(P) = 2 THEN P[1] \o "/" \o P[2]
     ELSE IF Len(P) = 3 THEN P[1] \o "/" \o P[2] \o "/" \o P[3]
     ELSE P[1] \o "/" \o P[2] \o "/" \o P[3] \o "/" \o P[4])

RoutePatterns == [i \in DOMAIN Routes |-> Pattern(Routes[i])]

\* the pattern of the first route that matches, "" when none does
RouteOf(method, path) ==
  LET i == FindIndex(Routes, LAMBDA r : Matches(r, method, path)) IN
  IF i = 0 THEN "" ELSE RoutePatterns[i]

\* no route matches: Express answers 404 and no handler of the application runs
NotFound(db, method) ==
  Reply(db, method, 404, "", [error |-> "Cannot " \o method])

\* the handler of the route named route, applied to the request
Handle(db, route, req) ==
  CASE route = "GET /health" -> Reply(db, route, 200, "", [status |-> "ok"])
    [] route = "POST /api/auth/login" -> Login(db, req.body)
    [] route = "POST /api/auth/register" -> Register(db, req.body)
    [] route = "GET /api/products" -> GetProducts(db, req.query)
    [] route = "GET /api/products/:id" -> GetProduct(db, req.path[3])
    [] route = "GET /api/cart" -> GetCart(db, req.auth)
    [] route = "POST /api/cart/items" -> PostCartItems(db, req.auth, req.body)
    [] route = "DELETE /api/cart/items/:productId" -> DeleteCartItem(db, req.auth, req.path[4])
    [] route = "POST /api/orders" -> PostOrders(db, req.auth)
    [] route = "GET /api/orders" -> GetOrders(db, req.auth)
    [] route = "GET /api/orders/:id" -> GetOrder(db, req.auth, req.path[3])
    [] route = "GET /api/search" -> Search(db, req.query)
    [] route = "GET /api/reports/sales" -> SalesReport(db, req.auth)
    [] OTHER -> NotFound(db, req.method)

\* a request that passed the rate-limit middleware: the response and the state left
Serve(db, req) == Handle(db, RouteOf(req.method, req.path), req)

Request(method, path, auth, body, query) ==
  [method |-> method, path |-> path, auth |-> auth, body |-> body, query |-> query]

----------------------------------------------------------------------------
(* The requests clients send *)

NoBody == [f \in {} |-> ""]
NoQuery == [f \in {} |-> 0]

Emails == {"user1@test.com", "new@test.com", ""}
Passwords == {"password123", "secret"}

LoginBodies ==
  {[email |-> e, password |-> p] : e \in Emails, p \in Passwords}
    \cup {[email |-> e] : e \in Emails} \cup {[password |-> "password123"]} \cup {NoBody}

RegisterBodies ==
  {[email |-> e, password |-> p, name |-> "New"] : e \in Emails, p \in Passwords}
    \cup {[email |-> "new@test.com", password |-> "secret"],
          [email |-> "user1@test.com", name |-> "New"]}

\* ids of the catalog, the first id past it, and two ids it never holds
ProductIds == {ToString(i) : i \in 0..(ProductCount + 1)} \cup {"01"}

CartBodies ==
  {[productId |-> ToString(i), quantity |-> q] : i \in 1..(ProductCount + 1), q \in 1..2}
    \cup {[productId |-> "1"], [productId |-> ""], [quantity |-> 1]}

\* the token login returns to the i-th seeded user
TokenOf(i) == jwtSign(generateUsers(UserCount)[i].id, generateUsers(UserCount)[i].email)

\* Authorization headers that authenticate rejects: none, another scheme, a token
\* signed with another secret, an expired token
BadHeaders ==
  {NoAuth, [scheme |-> "Basic", token |-> NoToken],
   getAuthHeaders([TokenOf(1) EXCEPT !.secret = "guess"]),
   getAuthHeaders([TokenOf(1) EXCEPT !.expired = TRUE])}

\* the headers of the clients: the tokens login returned to the first NumClients users
ClientHeaders == {getAuthHeaders(TokenOf(i)) : i \in 1..NumClients}

Headers == BadHeaders \cup ClientHeaders

OrderIds == {"uuid-" \o ToString(i) : i \in 0..(MaxOrders + MaxRegistered)}

\* helpers.js login(email, password)
LoginRequestFor(email, password) ==
  Request("POST", <<"api", "auth", "login">>, NoAuth,
          [email |-> email, password |-> password], NoQuery)

LoginRequests ==
  {Request("POST", <<"api", "auth", "login">>, NoAuth, b, NoQuery) : b \in LoginBodies}
RegisterRequests ==
  {Request("POST", <<"api", "auth", "register">>, NoAuth, b, NoQuery) : b \in RegisterBodies}
ProductsRequests ==
  {Request("GET", <<"api", "products">>, NoAuth, NoBody, q) :
     q \in {NoQuery, [page |-> 1, limit |-> 20], [page |-> 2, limit |-> 1]}}
ProductRequests ==
  {Request("GET", <<"api", "products", id>>, NoAuth, NoBody, NoQuery) : id \in ProductIds}
CartRequests ==
  {Request("GET", <<"api", "cart">>, h, NoBody, NoQuery) : h \in Headers}
AddItemRequests ==
  {Request("POST", <<"api", "cart", "items">>, h, b, NoQuery) :
     h \in ClientHeaders, b \in CartBodies}
  \cup {Request("POST", <<"api", "cart", "items">>, h, [productId |-> "1"], NoQuery) :
          h \in BadHeaders}
RemoveItemRequests ==
  {Request("DELETE", <<"api", "cart", "items", id>>, h, NoBody, NoQuery) :
     h \in ClientHeaders, id \in ProductIds}
  \cup {Request("DELETE", <<"api", "cart", "items", "1">>, h, NoBody, NoQuery) :
          h \in BadHeaders}
\* api-crud.js 04_Delete: http.del(`${BASE_URL}/api/cart`, null, { headers })
ClearCartRequests ==
  {Request("DELETE", <<"api", "cart">>, h, NoBody, NoQuery) : h \in Headers}
CheckoutRequests ==
  {Request("POST", <<"api", "orders">>, h, NoBody, NoQuery) : h \in Headers}
OrdersRequests ==
  {Request("GET", <<"api", "orders">>, h, NoBody, NoQuery) : h \in Headers}
OrderRequests ==
  {Request("GET", <<"api", "orders", id>>, h, NoBody, NoQuery) :
     h \in ClientHeaders, id \in OrderIds}
  \cup {Request("GET", <<"api", "orders", "uuid-1">>, h, NoBody, NoQuery) : h \in BadHeaders}
\* helpers.js searchProducts(query)
SearchRequests ==
  {Request("GET", <<"api", "search">>, NoAuth, NoBody, q) :
     q \in {NoQuery, [q |-> "a"], [q |-> "product"], [q |-> "book"], [q |-> "laptop"]}}
ReportRequests ==
  {Request("GET", <<"api", "reports", "sales">>, h, NoBody, NoQuery) : h \in Headers}

AllRequests ==
  LoginRequests \cup RegisterRequests \cup ProductsRequests \cup ProductRequests
    \cup CartRequests \cup AddItemRequests \cup RemoveItemRequests \cup ClearCartRequests
    \cup CheckoutRequests \cup OrdersRequests \cup OrderRequests
    \cup SearchRequests \cup ReportRequests

\* the server's state becomes db
ServerBecomes(db) ==
  /\ products' = db.products
  /\ users' = db.users
  /\ carts' = db.carts
  /\ orders' = db.orders
  /\ nextUuid' = db.nextUuid
  /\ metrics' = [metrics EXCEPT !.errors = db.errors]

----------------------------------------------------------------------------
(* purchase-flow.js: the virtual users *)

VUs == 1..NumVUs

\* a virtual user about to run default(): no token, no selected product; clean
\* records that every request of the iteration so far reached its handler, runs
\* the iterations completed
NewVu == [pc |-> "01_Login", token |-> NoToken, selected |-> "", clean |-> TRUE,
          iter |-> 0, runs |-> <<>>]

\* a mutant: every virtual user logs in as user1, as setup() of api-crud.js does
VuEmail_shared(vuId) == "user1@test.com"

\* `${data.baseEmail}${(vuId % 100) + 1}@test.com`
VuEmail(vuId) == "user" \o ToString((vuId % 100) + 1) \o "@test.com"

\* what becomes of a request: it reaches its handler, the rate-limit middleware
\* refuses it, or it fails in transport (k6 reports status 0)
Outcomes == {"handled", "limited", "failed"}

Respond(db, req, outcome) ==
  CASE outcome = "handled" -> Serve(db, req)
    [] outcome = "limited" -> Fail(db, "rate-limit", 429, "", "Too Many Requests")
    [] OTHER -> Reply(db, "", 0, "", NoBody)

\* helpers.js login(): the token when the checks pass, null (NoToken) otherwise
login(r) == IF r.status = 200 /\ "token" \in DOMAIN r.body THEN r.body.token ELSE NoToken

\* a mutant: every checkout counts as a success
CountCheckout_alwaysSuccess(status) == [success |-> 1, failed |-> 0]

\* if (response.status === 201) purchaseSuccess.add(1) else purchaseFailed.add(1)
CountCheckout_successOnly(status) ==
  [success |-> IF status = 201 THEN 1 ELSE 0, failed |-> 0]

CountCheckout(status) ==
  [success |-> IF status = 201 THEN 1 ELSE 0, failed |-> IF status = 201 THEN 0 ELSE 1]

\* default() returns: the iteration is recorded with the status of its checkout
\* (-1 when none was sent) and whether it got past login and browsing, and the
\* virtual user starts the next one, if any
EndIteration(me, checkout) ==
  [pc |-> IF me.iter + 1 < MaxIterations THEN "01_Login" ELSE "done",
   token |-> NoToken, selected |-> "", clean |-> TRUE, iter |-> me.iter + 1,
   runs |-> Append(me.runs, [clean |-> me.clean, checkout |-> checkout,
                             past |-> me.pc \notin {"01_Login", "02_Browse"}])]

\* the virtual user after a request with this outcome
After(v, outcome) == [vu[v] EXCEPT !.clean = @ /\ outcome = "handled"]

\* r.json(...) inside a check: on a response without a body (a transport failure)
\* k6 may throw, which ends the iteration on the spot, or yield undefined
Throws(outcome) == IF outcome = "failed" THEN BOOLEAN ELSE {FALSE}

\* Step 1: Login
VuLogin(v) ==
  /\ vu[v].pc = "01_Login"
  /\ \E outcome \in Outcomes : \E throws \in Throws(outcome) :
       LET r == Respond(Db, LoginRequestFor(VuEmail(v), "password123"), outcome)
           token == login(r) IN
       /\ ServerBecomes(r.db)
       /\ IF throws
            THEN /\ vu' = [vu EXCEPT ![v] = EndIteration(After(v, outcome), -1)]
                 /\ UNCHANGED <<purchaseSuccess, purchaseFailed, hist>>
            ELSE IF token # NoToken
              THEN /\ vu' = [vu EXCEPT ![v] = [After(v, outcome) EXCEPT
                                                 !.pc = "02_Browse", !.token = token]]
                   /\ UNCHANGED <<purchaseSuccess, purchaseFailed, hist>>
              ELSE /\ vu' = [vu EXCEPT ![v] = EndIteration(After(v, outcome), -1)]
                   /\ purchaseFailed' = purchaseFailed + 1
                   /\ hist' = [hist EXCEPT !.early = @ + 1]
                   /\ UNCHANGED purchaseSuccess
  /\ UNCHANGED <<registered, rateVars, sh, testVars>>

\* Step 2: Browse products, and the selection of a product among the first 20
VuBrowse(v) ==
  /\ vu[v].pc = "02_Browse"
  /\ \E outcome \in Outcomes : \E throws \in Throws(outcome) :
       LET r == Respond(Db, Request("GET", <<"api", "products">>,
                                    getAuthHeaders(vu[v].token), NoBody,
                                    [page |-> 1, limit |-> 20]), outcome)
           found == IF r.status = 200 THEN r.body.data ELSE <<>> IN
       /\ ServerBecomes(r.db)
       /\ IF throws
            THEN /\ vu' = [vu EXCEPT ![v] = EndIteration(After(v, outcome), -1)]
                 /\ UNCHANGED <<purchaseSuccess, purchaseFailed, hist>>
            ELSE IF found = <<>>
              THEN /\ vu' = [vu EXCEPT ![v] = EndIteration(After(v, outcome), -1)]
                   /\ purchaseFailed' = purchaseFailed + 1
                   /\ hist' = [hist EXCEPT !.early = @ + 1]
                   /\ UNCHANGED purchaseSuccess
              ELSE /\ \E k \in 0..Min(Len(found) - 1, 19) :
                        vu' = [vu EXCEPT ![v] = [After(v, outcome) EXCEPT
                                                  !.pc = "03_ViewProduct",
                                                  !.selected = found[k + 1].id]]
                   /\ UNCHANGED <<purchaseSuccess, purchaseFailed, hist>>
  /\ UNCHANGED <<registered, rateVars, sh, testVars>>

\* Step 3: View product details
VuViewProduct(v) ==
  /\ vu[v].pc = "03_ViewProduct"
  /\ \E outcome \in Outcomes :
       LET r == Respond(Db, Request("GET", <<"api", "products", vu[v].selected>>,
                                    getAuthHeaders(vu[v].token), NoBody, NoQuery),
                        outcome) IN
       /\ ServerBecomes(r.db)
       /\ vu' = [vu EXCEPT ![v] = [After(v, outcome) EXCEPT !.pc = "04_AddToCart"]]
  /\ UNCHANGED <<purchaseSuccess, purchaseFailed, hist, registered, rateVars, sh, testVars>>

\* Step 4: Add to cart, with quantity randomInt(1, 3)
VuAddToCart(v) ==
  /\ vu[v].pc = "04_AddToCart"
  /\ \E outcome \in Outcomes, quantity \in 1..3 :
       LET r == Respond(Db, Request("POST", <<"api", "cart", "items">>,
                                    getAuthHeaders(vu[v].token),
                                    [productId |-> vu[v].selected,
                                     quantity |-> quantity], NoQuery),
                        outcome) IN
       /\ ServerBecomes(r.db)
       /\ vu' = [vu EXCEPT ![v] = [After(v, outcome) EXCEPT !.pc = "05_ViewCart"]]
  /\ UNCHANGED <<purchaseSuccess, purchaseFailed, hist, registered, rateVars, sh, testVars>>

\* Step 5: View cart
VuViewCart(v) ==
  /\ vu[v].pc = "05_ViewCart"
  /\ \E outcome \in Outcomes :
       LET r == Respond(Db, Request("GET", <<"api", "cart">>,
                                    getAuthHeaders(vu[v].token), NoBody, NoQuery),
                        outcome) IN
       /\ ServerBecomes(r.db)
       /\ vu' = [vu EXCEPT ![v] = [After(v, outcome) EXCEPT !.pc = "06_Checkout"]]
  /\ UNCHANGED <<purchaseSuccess, purchaseFailed, hist, registered, rateVars, sh, testVars>>

\* Step 6: Checkout, when shouldCheckout
VuCheckout(v) ==
  /\ vu[v].pc = "06_Checkout"
  /\ \E outcome \in Outcomes :
       LET r == Respond(Db, Request("POST", <<"api", "orders">>,
                                    getAuthHeaders(vu[v].token), NoBody, NoQuery),
                        outcome)
           c == CountCheckout(r.status) IN
       /\ ServerBecomes(r.db)
       /\ purchaseSuccess' = purchaseSuccess + c.success
       /\ purchaseFailed' = purchaseFailed + c.failed
       /\ hist' = IF r.status = 201 THEN [hist EXCEPT !.created = @ + 1]
                                    ELSE [hist EXCEPT !.refused = @ + 1]
       /\ vu' = [vu EXCEPT ![v] = EndIteration(After(v, outcome), r.status)]
  /\ UNCHANGED <<registered, rateVars, sh, testVars>>

\* Step 6 skipped: __VU is not 1 and randomInt(1, 10) is above 3
VuSkipCheckout(v) ==
  /\ vu[v].pc = "06_Checkout"
  /\ v # 1
  /\ vu' = [vu EXCEPT ![v] = EndIteration(vu[v], -1)]
  /\ UNCHANGED <<dbVars, metrics, purchaseSuccess, purchaseFailed, hist,
                 registered, rateVars, sh, testVars>>

----------------------------------------------------------------------------
(* scripts/run-all.sh and scripts/run-quick.sh *)

\* the commands of run-all.sh that set $?, in order
RunAll ==
  <<[cmd |-> "echo"], [cmd |-> "mkdir"], [cmd |-> "health"],
    [cmd |-> "k6", test |-> "tests/load/baseline.js"],
    [cmd |-> "k6", test |-> "tests/load/purchase-flow.js"],
    [cmd |-> "k6", test |-> "tests/spike/sudden-traffic.js"],
    [cmd |-> "k6", test |-> "tests/stress/breaking-point.js"],
    [cmd |-> "echo"]>>

\* the commands of run-quick.sh
RunQuick ==
  <<[cmd |-> "echo"], [cmd |-> "k6", test |-> "tests/load/baseline.js"],
    [cmd |-> "echo"]>>

Script(name) == IF name = "run-all.sh" THEN RunAll ELSE RunQuick

\* the exit status of k6 run: 0 when every threshold passed, 99 when a threshold
\* failed, 107 when the script threw
K6ExitCodes == {0, 99, 107}

\* the command the shell is about to run
Command == Script(sh.script)[sh.pc]

Running(cmd) ==
  sh.state = "running" /\ sh.pc <= Len(Script(sh.script)) /\ Command.cmd = cmd

\* ./scripts/run-all.sh or ./scripts/run-quick.sh is started
Invoke(name) ==
  /\ sh.state = "idle"
  /\ sh' = [sh EXCEPT !.script = name, !.state = "running"]
  /\ UNCHANGED <<dbVars, metrics, registered, rateVars, pfVars, testVars>>

\* echo, mkdir -p: $? becomes 0 and the script goes on
Echo ==
  /\ Running("echo") \/ Running("mkdir")
  /\ sh' = [sh EXCEPT !.status = 0, !.pc = @ + 1]
  /\ UNCHANGED <<dbVars, metrics, registered, rateVars, pfVars, testVars>>

\* if ! curl -s "$BASE_URL/health" | grep -q "ok"; then ... exit 1; fi
HealthCheck(ok) ==
  /\ Running("health")
  /\ sh' = IF ok THEN [sh EXCEPT !.status = 0, !.pc = @ + 1]
                 ELSE [sh EXCEPT !.status = 1, !.state = "exited"]
  /\ UNCHANGED <<dbVars, metrics, registered, rateVars, pfVars, testVars>>

\* a mutant: the script runs under set -e, a failed k6 run ends it
K6Run_errexit(code) ==
  /\ Running("k6")
  /\ sh' = [sh EXCEPT !.status = code,
                      !.pc = IF code = 0 THEN @ + 1 ELSE @,
                      !.state = IF code = 0 THEN @ ELSE "exited",
                      !.ran = Append(@, [test |-> Command.test, code |-> code])]
  /\ UNCHANGED <<dbVars, metrics, registered, rateVars, pfVars, testVars>>

\* k6 run ...: $? becomes k6's exit status and the script goes on
K6Run(code) ==
  /\ Running("k6")
  /\ sh' = [sh EXCEPT !.status = code, !.pc = @ + 1,
                      !.ran = Append(@, [test |-> Command.test, code |-> code])]
  /\ UNCHANGED <<dbVars, metrics, registered, rateVars, pfVars, testVars>>

\* the end of the script: the shell exits with the status of the last command
EndOfScript ==
  /\ sh.state = "running" /\ sh.pc > Len(Script(sh.script))
  /\ sh' = [sh EXCEPT !.state = "exited"]
  /\ UNCHANGED <<dbVars, metrics, registered, rateVars, pfVars, testVars>>

----------------------------------------------------------------------------
(* The k6 test scripts: helpers.js, setup() and the iteration functions *)

\* config.js HEADERS: Content-Type and Accept, no Authorization
HEADERS == NoAuth

\* helpers.js: the request each helper sends; json tells that its check calls
\* r.json(...) outside any try; trend names the Trend the caller times the call
\* for, count the Counter it adds 1 to after the call
getProducts(params, authHeaders) ==
  [req |-> Request("GET", <<"api", "products">>, authHeaders, NoBody, params), json |-> TRUE, trend |-> "", count |-> ""]
getProduct(productId, authHeaders) ==
  [req |-> Request("GET", <<"api", "products", productId>>, authHeaders, NoBody, NoQuery),
   json |-> FALSE, trend |-> "", count |-> ""]
searchProducts(query, authHeaders) ==
  [req |-> Request("GET", <<"api", "search">>, authHeaders, NoBody, [q |-> query]),
   json |-> FALSE, trend |-> "", count |-> ""]
addToCart(productId, quantity, authHeaders) ==
  [req |-> Request("POST", <<"api", "cart", "items">>, authHeaders,
                   [productId |-> productId, quantity |-> quantity], NoQuery),
   json |-> FALSE, trend |-> "", count |-> ""]
getCart(authHeaders) ==
  [req |-> Request("GET", <<"api", "cart">>, authHeaders, NoBody, NoQuery), json |-> FALSE, trend |-> "", count |-> ""]

\* the test scripts that have a setup()
Scripts == {"baseline", "stress", "spike", "soak", "auth-stress", "api-crud",
            "mixed-workload"}

\* the virtual users of a run: the last one logs in as a user that is not seeded
VuIds == 1..(NumVUs + 1)

\* Date.now() - start, in milliseconds
Durations == {100, RecoveryMs, DEGRADATION_THRESHOLD_MS, DEGRADATION_THRESHOLD_MS + 1}

\* no run yet: the script executed, what setup() returned, the number of active
\* virtual users and the iterations started
NoRun == [script |-> "", state |-> "idle", token |-> NoToken, active |-> 0,
          iterations |-> 0]

\* an iteration function called by virtual user vuId while k6.active virtual users
\* are active: the requests it has sent, the samples it has added to the custom
\* metrics, the calls its branch has still to make (plan), and its position (pc)
\* where that depends on responses
NewIteration(fn, vuId) ==
  [fn |-> fn, vuId |-> vuId, active |-> k6.active, state |-> "running", pc |-> "",
   plan |-> <<>>,
   requests |-> <<>>, samples |-> <<>>, token |-> NoToken, products |-> <<>>,
   behaviour |-> "", sleep |-> 0]

NoIteration == [NewIteration("", 0) EXCEPT !.state = "none", !.active = 0]

\* a request was sent and answered
Sent(i, req, r) ==
  [i EXCEPT !.requests = Append(@, [method |-> req.method, path |-> req.path,
                                    auth |-> req.auth, status |-> r.status])]

\* metric.add(value); a Rate takes true as 1 and false as 0
Add(i, metric, value) ==
  [i EXCEPT !.samples = Append(@, [metric |-> metric, value |-> value])]

\* the function returns, or an exception ends it
Ended(i, throws) == [i EXCEPT !.state = IF throws THEN "threw" ELSE "completed",
                              !.plan = <<>>, !.pc = ""]

\* a run may start another iteration
MayIterate(script) ==
  /\ k6.script = script
  /\ k6.state = "running"
  /\ k6.iterations < MaxRuns
  /\ it.state # "running"

\* data.token ? getAuthHeaders(data.token) : undefined, undefined being replaced
\* by the helpers' default parameter authHeaders = HEADERS
AuthHeadersOrDefault(token) == IF token # NoToken THEN getAuthHeaders(token) ELSE HEADERS

\* setup(): baseline, stress, spike, soak and api-crud call login() of helpers.js
\* as user1; auth-stress posts the login itself and reads the token on status
\* 200; mixed-workload sends nothing.  An exception in setup() aborts the run.
setup(script) ==
  /\ k6.state = "idle"
  /\ IF script = "mixed-workload"
       THEN /\ k6' = [NoRun EXCEPT !.script = script, !.state = "running"]
            /\ UNCHANGED <<dbVars, metrics>>
       ELSE \E outcome \in Outcomes :
            \E throws \in (IF script = "auth-stress" THEN {FALSE} ELSE Throws(outcome)) :
              LET r == Respond(Db, LoginRequestFor("user1@test.com", "password123"), outcome)
                  token == IF script = "auth-stress"
                             THEN IF r.status = 200 THEN r.body.token ELSE NoToken
                             ELSE login(r) IN
              /\ ServerBecomes(r.db)
              /\ k6' = [NoRun EXCEPT !.script = script,
                                     !.state = IF throws THEN "aborted" ELSE "running",
                                     !.token = IF throws THEN NoToken ELSE token]
  /\ UNCHANGED <<registered, rateVars, pfVars, sh, flight, rand, lat, it, crud>>

\* an iteration starts: the counter of the run moves
Started == k6' = [k6 EXCEPT !.iterations = @ + 1]

----------------------------------------------------------------------------
(* Stress test (breaking point): default() *)

\* the three operations: list products, search, individual product
StressCalls(authHeaders) ==
  {getProducts([page |-> p, limit |-> 50], authHeaders) : p \in {1, 50}}
    \cup {searchProducts(t, authHeaders) : t \in {"product", "quality", "best"}}
    \cup {getProduct(ToString(id), authHeaders) : id \in {1, ProductCount + 1}}

\* responseTime.add(duration); errorRate.add(isError);
\* if (duration > DEGRADATION_THRESHOLD_MS && !isError) degradedResponses.add(1)
StressSamples(status, duration) ==
  LET isError == status >= 400 IN
  <<[metric |-> "response_time_trend", value |-> duration],
    [metric |-> "error_rate", value |-> IF isError THEN 1 ELSE 0]>>
  \o (IF duration > DEGRADATION_THRESHOLD_MS /\ ~isError
        THEN <<[metric |-> "degraded_responses", value |-> 1]>> ELSE <<>>)

StressIteration ==
  /\ MayIterate("stress")
  /\ \E v \in VuIds, c \in StressCalls(AuthHeadersOrDefault(k6.token)),
        outcome \in Outcomes, duration \in Durations :
     \E throws \in (IF c.json THEN Throws(outcome) ELSE {FALSE}) :
       LET r == Respond(Db, c.req, outcome)
           i == Sent(NewIteration("stress", v), c.req, r) IN
       /\ ServerBecomes(r.db)
       /\ it' = IF throws THEN Ended(i, TRUE)
                ELSE Ended([i EXCEPT !.samples = StressSamples(r.status, duration)], FALSE)
  /\ Started
  /\ UNCHANGED <<registered, rateVars, pfVars, sh, flight, rand, lat, crud>>

----------------------------------------------------------------------------
(* Spike test: default() *)

\* numbers of active virtual users the stages pass through: the targets 10, 200
\* and 150, and the two levels around SpikeVUs on the ramps between them
SpikeLevels == {10, SpikeVUs, SpikeVUs + 1, 150, 200}

\* the scheduler ramps the number of active virtual users
Ramp ==
  /\ k6.script = "spike"
  /\ k6.state = "running"
  /\ it.state # "running"
  /\ \E n \in SpikeLevels : n # k6.active /\ k6' = [k6 EXCEPT !.active = n]
  /\ UNCHANGED <<dbVars, metrics, registered, rateVars, pfVars, sh, flight, rand, lat, it, crud>>

\* const currentVUs = __VU; const isSpikePeriod = currentVUs > 50
isSpikePeriod(currentVUs) == currentVUs > SpikeVUs

\* the calls of the spike period and of the normal behaviour; neither passes
\* authHeaders to the helper
SpikeCalls(spike) ==
  IF spike
    THEN {searchProducts("product", HEADERS), getProducts([page |-> 1, limit |-> 50], HEADERS)}
    ELSE {getProducts([page |-> p, limit |-> 20], HEADERS) : p \in {1, 10}}

\* sleep(isSpikePeriod ? 0.1 : randomInt(0.5, 1.5)), in milliseconds:
\* randomInt(0.5, 1.5) is Math.floor(Math.random() * 2) + 0.5
SpikeSleeps(spike) == IF spike THEN {100} ELSE {500, 1500}

SpikeIteration ==
  /\ MayIterate("spike")
  /\ k6.active > 0
  /\ \E v \in {id \in SpikeLevels \cup {1} : id <= k6.active} :
     \E c \in SpikeCalls(isSpikePeriod(v)), outcome \in Outcomes,
        duration \in {100, RecoveryMs},
        pause \in SpikeSleeps(isSpikePeriod(v)) :
     \E throws \in (IF c.json THEN Throws(outcome) ELSE {FALSE}) :
       LET r == Respond(Db, c.req, outcome)
           i0 == [Sent(NewIteration("spike", v), c.req, r) EXCEPT
                    !.behaviour = IF isSpikePeriod(v) THEN "spike" ELSE "normal"]
           i1 == Add(i0, "spike_response_time", duration)
           i2 == IF ~isSpikePeriod(v) /\ duration < RecoveryMs
                   THEN Add(i1, "recovery_time", duration) ELSE i1 IN
       /\ ServerBecomes(r.db)
       /\ it' = IF throws THEN Ended(i0, TRUE) ELSE Ended([i2 EXCEPT !.sleep = pause], FALSE)
  /\ Started
  /\ UNCHANGED <<registered, rateVars, pfVars, sh, flight, rand, lat, crud>>

----------------------------------------------------------------------------
(* Auth stress test: normalLogin, burstLogin, validateToken *)

\* http.post(`${BASE_URL}/api/auth/login`, payload, ...) with password123
AuthLogin(email) == LoginRequestFor(email, "password123")

\* the checks 'login successful' and 'has token', r.json('token') inside a try
\* whose catch returns false
NormalLoginSuccess(r) == r.status = 200 /\ "token" \in DOMAIN r.body

\* if (success) { loginSuccess.add(1); authErrorRate.add(0) }
\* else { loginFailed.add(1); authErrorRate.add(1) }
NormalLoginSamples(success) ==
  IF success
    THEN <<[metric |-> "auth_login_success", value |-> 1],
           [metric |-> "auth_error_rate", value |-> 0]>>
    ELSE <<[metric |-> "auth_login_failed", value |-> 1],
           [metric |-> "auth_error_rate", value |-> 1]>>

normalLogin ==
  /\ MayIterate("auth-stress")
  /\ \E v \in VuIds, outcome \in Outcomes, duration \in Durations :
       LET req == AuthLogin(VuEmail(v))
           r == Respond(Db, req, outcome)
           i == Add(Sent(NewIteration("normalLogin", v), req, r),
                    "auth_login_duration", duration) IN
       /\ ServerBecomes(r.db)
       /\ it' = Ended([i EXCEPT !.samples = @ \o NormalLoginSamples(NormalLoginSuccess(r))],
                      FALSE)
  /\ Started
  /\ UNCHANGED <<registered, rateVars, pfVars, sh, flight, rand, lat, crud>>

\* a mutant: a rate-limited login is counted as the other failures are
BurstLoginSamples_limitedFails(status) ==
  IF status = 200
    THEN <<[metric |-> "auth_login_success", value |-> 1],
           [metric |-> "auth_error_rate", value |-> 0]>>
    ELSE <<[metric |-> "auth_login_failed", value |-> 1],
           [metric |-> "auth_error_rate", value |-> 1]>>

\* status 200: loginSuccess.add(1); authErrorRate.add(0)
\* status 429 (rate limited is expected behavior): authErrorRate.add(0)
\* otherwise: loginFailed.add(1); authErrorRate.add(1)
BurstLoginSamples(status) ==
  IF status = 200
    THEN <<[metric |-> "auth_login_success", value |-> 1],
           [metric |-> "auth_error_rate", value |-> 0]>>
    ELSE IF status = 429
      THEN <<[metric |-> "auth_error_rate", value |-> 0]>>
      ELSE <<[metric |-> "auth_login_failed", value |-> 1],
             [metric |-> "auth_error_rate", value |-> 1]>>

\* const email = `user${(iteration % 100) + 1}@test.com` with iteration = __ITER
BurstEmail(iteration) == "user" \o ToString((iteration % 100) + 1) \o "@test.com"

burstLogin ==
  /\ MayIterate("auth-stress")
  /\ \E v \in VuIds, outcome \in Outcomes, duration \in Durations :
       LET req == AuthLogin(BurstEmail(k6.iterations))
           r == Respond(Db, req, outcome)
           i == Add(Sent(NewIteration("burstLogin", v), req, r),
                    "auth_login_duration", duration) IN
       /\ ServerBecomes(r.db)
       /\ it' = Ended([i EXCEPT !.samples = @ \o BurstLoginSamples(r.status)], FALSE)
  /\ Started
  /\ UNCHANGED <<registered, rateVars, pfVars, sh, flight, rand, lat, crud>>

\* if (!data.validToken) return; otherwise GET /api/products with the token,
\* tokenValidation.add(duration), authErrorRate.add(success ? 0 : 1), where the
\* checks are status 200 and r.body && r.body.length > 0
validateToken ==
  /\ MayIterate("auth-stress")
  /\ \E v \in VuIds :
       IF k6.token = NoToken
         THEN /\ it' = Ended(NewIteration("validateToken", v), FALSE)
              /\ UNCHANGED <<dbVars, metrics>>
         ELSE \E outcome \in Outcomes, duration \in Durations :
                LET req == Request("GET", <<"api", "products">>, getAuthHeaders(k6.token),
                                   NoBody, NoQuery)
                    r == Respond(Db, req, outcome)
                    success == r.status = 200 /\ r.body # NoBody
                    i == Add(Sent(NewIteration("validateToken", v), req, r),
                             "auth_token_validation", duration) IN
                /\ ServerBecomes(r.db)
                /\ it' = Ended(Add(i, "auth_error_rate", IF success THEN 0 ELSE 1), FALSE)
  /\ Started
  /\ UNCHANGED <<registered, rateVars, pfVars, sh, flight, rand, lat, crud>>

----------------------------------------------------------------------------
(* Baseline load test and soak test: default() *)

\* the calls of a scenario: browse and view, search, or filter
BaselinePlans ==
  {<<getProducts([page |-> p, limit |-> 20], HEADERS), getProduct(id, HEADERS)>> :
     p \in {1, 10}, id \in {"1", ToString(ProductCount + 1)}}
    \cup {<<searchProducts(t, HEADERS)>> : t \in {"laptop", "book"}}
    \cup {<<getProducts([category |-> c, minPrice |-> 10, maxPrice |-> 500], HEADERS)>> :
            c \in {"electronics", "books"}}

\* const startTime = Date.now(); getProduct(productId);
\* memoryIndicator.add(Date.now() - startTime)
Timed(call, metric) == [call EXCEPT !.trend = metric]

\* the calls of a journey: browse and maybe search, view a product, the cart
\* operations if (authHeaders), or a heavy search
SoakPlans(token) ==
  {<<getProducts([page |-> 1, limit |-> 20], HEADERS)>>,
   <<getProducts([page |-> 20, limit |-> 20], HEADERS), searchProducts("book", HEADERS)>>,
   <<Timed(getProduct("1", HEADERS), "memory_indicator_response_time")>>,
   <<searchProducts("product description quality", HEADERS)>>}
    \cup (IF token # NoToken
            THEN {<<getCart(getAuthHeaders(token))>>,
                  <<getCart(getAuthHeaders(token)),
                    addToCart("1", 1, getAuthHeaders(token))>>}
            ELSE {<<>>})

\* default() of the baseline test is called and draws its scenario
BaselineIteration ==
  /\ MayIterate("baseline")
  /\ \E v \in VuIds, plan \in BaselinePlans :
       it' = [NewIteration("baseline", v) EXCEPT !.plan = plan]
  /\ Started
  /\ UNCHANGED <<dbVars, metrics, registered, rateVars, pfVars, sh, flight, rand, lat, crud>>

\* default() of the soak test is called and draws its journey
SoakIteration ==
  /\ MayIterate("soak")
  /\ \E v \in VuIds, plan \in SoakPlans(k6.token) :
       it' = IF plan = <<>> THEN Ended(NewIteration("soak", v), FALSE)
             ELSE [NewIteration("soak", v) EXCEPT !.plan = plan]
  /\ Started
  /\ UNCHANGED <<dbVars, metrics, registered, rateVars, pfVars, sh, flight, rand, lat, crud>>

\* the function returns: browserBehavior and shopperBehavior end with
\* conversionRate.add(0), buyerBehavior with conversionRate.add(converted ? 1 : 0)
Returns(i, converted) ==
  Ended(IF i.fn \in {"browserBehavior", "shopperBehavior", "buyerBehavior"}
          THEN Add(i, "conversion_rate", IF converted THEN 1 ELSE 0)
          ELSE i, FALSE)

\* the iteration makes the next call of its scenario, journey or session; after
\* the last one the function returns, but for the checkout of buyerBehavior
HelperCall ==
  /\ it.state = "running"
  /\ it.plan # <<>>
  /\ \E outcome \in Outcomes :
     \E duration \in (IF Head(it.plan).trend # "" THEN Durations ELSE {0}),
        throws \in (IF Head(it.plan).json THEN Throws(outcome) ELSE {FALSE}) :
       LET c == Head(it.plan)
           r == Respond(Db, c.req, outcome)
           i0 == Sent(it, c.req, r)
           i1 == IF c.trend # "" THEN Add(i0, c.trend, duration) ELSE i0
           i2 == IF c.count # "" THEN Add(i1, c.count, 1) ELSE i1 IN
       /\ ServerBecomes(r.db)
       /\ it' = IF throws THEN Ended(i0, TRUE)
                ELSE IF Tail(it.plan) # <<>> THEN [i2 EXCEPT !.plan = Tail(it.plan)]
                ELSE IF it.fn = "buyerBehavior" THEN [i2 EXCEPT !.plan = <<>>, !.pc = "checkout"]
                ELSE Returns(i2, FALSE)
  /\ UNCHANGED <<k6, registered, rateVars, pfVars, sh, flight, rand, lat, crud>>

----------------------------------------------------------------------------
(* Mixed workload: browserBehavior, shopperBehavior, buyerBehavior *)

\* http.get / http.post called by the function itself, followed by actions.add(1)
Counted(call, metric) == [call EXCEPT !.json = FALSE, !.count = metric]

\* Browser Session: the products, one to three product views, maybe a search
BrowserPlans ==
  LET list == Counted(getProducts(NoQuery, HEADERS), "browser_actions")
      view == Counted(getProduct("1", HEADERS), "browser_actions")
      search == Counted(getProducts([search |-> "laptop"], HEADERS), "browser_actions") IN
  {<<list, view>>, <<list, view, view, view>>, <<list, view, search>>}

browserBehavior ==
  /\ MayIterate("mixed-workload")
  /\ \E v \in VuIds, plan \in BrowserPlans :
       it' = [NewIteration("browserBehavior", v) EXCEPT !.plan = plan, !.pc = "calls"]
  /\ Started
  /\ UNCHANGED <<dbVars, metrics, registered, rateVars, pfVars, sh, flight, rand, lat, crud>>

\* shopperBehavior and buyerBehavior start with login(email, data.password):
\* if (!token) return leaves the group, and the function ends with its
\* conversion sample; otherwise actions.add(1)
SessionLogin(fn) ==
  /\ MayIterate("mixed-workload")
  /\ \E v \in VuIds, outcome \in Outcomes : \E throws \in Throws(outcome) :
       LET req == LoginRequestFor(VuEmail(v), "password123")
           r == Respond(Db, req, outcome)
           token == login(r)
           i == Sent(NewIteration(fn, v), req, r)
           actions == IF fn = "buyerBehavior" THEN "buyer_actions" ELSE "shopper_actions" IN
       /\ ServerBecomes(r.db)
       /\ it' = IF throws THEN Ended(i, TRUE)
                ELSE IF token = NoToken THEN Returns(i, FALSE)
                ELSE [Add(i, actions, 1) EXCEPT !.token = token, !.pc = "browse"]
  /\ Started
  /\ UNCHANGED <<registered, rateVars, pfVars, sh, flight, rand, lat, crud>>

shopperBehavior == SessionLogin("shopperBehavior")

buyerBehavior == SessionLogin("buyerBehavior")

\* the ids of a list of products
RECURSIVE IdsOf(_)
IdsOf(list) == IF list = <<>> THEN <<>> ELSE <<list[1].id>> \o IdsOf(Tail(list))

\* the calls of a shopper after the listing: views of the first
\* min(numToView, products.length) products, adds of the first
\* min(numToAdd, products.length), then the cart
ShopperPlan(ids, headers, numToView, numToAdd) ==
  [n \in 1..Min(numToView, Len(ids)) |->
     Counted(getProduct(ids[n], headers), "shopper_actions")]
  \o [n \in 1..Min(numToAdd, Len(ids)) |->
        Counted(addToCart(ids[n], 1, headers), "shopper_actions")]
  \o <<Counted(getCart(headers), "shopper_actions")>>

\* the calls of a buyer after the listing, before the checkout: one product
\* added, then the cart
BuyerPlan(id, headers) ==
  <<Counted(addToCart(id, 1, headers), "buyer_actions"),
    Counted(getCart(headers), "buyer_actions")>>

\* getProducts({ page: 1, limit }, headers); products = the data when the
\* status is 200, [] otherwise (r.json inside a try); actions.add(1); a buyer
\* returns if (products.length === 0)
SessionBrowse ==
  /\ it.state = "running"
  /\ it.pc = "browse"
  /\ \E outcome \in Outcomes : \E throws \in Throws(outcome) :
     \E numToView \in 2..4, numToAdd \in 1..2, pick \in 1..ProductCount :
       LET buyer == it.fn = "buyerBehavior"
           headers == getAuthHeaders(it.token)
           c == getProducts([page |-> 1, limit |-> IF buyer THEN 10 ELSE 20], headers)
           r == Respond(Db, c.req, outcome)
           ids == IF r.status = 200 THEN IdsOf(r.body.data) ELSE <<>>
           i == Add(Sent(it, c.req, r),
                    IF buyer THEN "buyer_actions" ELSE "shopper_actions", 1) IN
       /\ ServerBecomes(r.db)
       /\ it' = IF throws THEN Ended(Sent(it, c.req, r), TRUE)
                ELSE IF buyer
                  THEN IF ids = <<>> THEN Returns(i, FALSE)
                       ELSE [i EXCEPT !.pc = "calls",
                                      !.plan = BuyerPlan(ids[Min(pick, Len(ids))], headers)]
                  ELSE [i EXCEPT !.pc = "calls",
                                 !.plan = ShopperPlan(ids, headers, numToView, numToAdd)]
  /\ UNCHANGED <<k6, registered, rateVars, pfVars, sh, flight, rand, lat, crud>>

\* if (checkoutRes.status === 201) converted = true
Converted(status) == status = 201

\* the checkout of buyerBehavior: http.post(`${BASE_URL}/api/orders`, '{}', ...);
\* on 201 converted = true and buyerActions.add(1); then the function ends
SessionCheckout ==
  /\ it.state = "running"
  /\ it.pc = "checkout"
  /\ \E outcome \in Outcomes :
       LET req == Request("POST", <<"api", "orders">>, getAuthHeaders(it.token),
                          NoBody, NoQuery)
           r == Respond(Db, req, outcome)
           i == Sent(it, req, r) IN
       /\ ServerBecomes(r.db)
       /\ it' = Returns(IF Converted(r.status) THEN Add(i, "buyer_actions", 1) ELSE i,
                        Converted(r.status))
  /\ UNCHANGED <<k6, registered, rateVars, pfVars, sh, flight, rand, lat, crud>>

----------------------------------------------------------------------------
(* api-crud.js: default(), one group after the other, by concurrent virtual users *)

\* a virtual user outside default(): createdItemId is null (""); added is the
\* productId of the create payload, updated the one of the update payload
NoCrud == [pc |-> "01_Create", state |-> "none", requests |-> <<>>, samples |-> <<>>,
           createdItemId |-> "", added |-> "", updated |-> ""]

\* Date.now() - start of the four groups, in milliseconds
CrudDurations == {100}

\* createdItemId = body.items[0].productId, when the status is 200 or 201 and
\* the body parses and has items
CreatedItemId(r) ==
  IF r.status \in {200, 201} /\ "items" \in DOMAIN r.body /\ Len(r.body.items) > 0
    THEN r.body.items[1].productId ELSE ""

\* crudSuccess.add(success): the Rate sample of a check result
CrudSuccess(i, success) == Add(i, "crud_success_rate", IF success THEN 1 ELSE 0)

\* 01_Create: post a product (1..10 in the script) with a quantity of 1..3
CrudCreate(v) ==
  /\ k6.script = "api-crud"
  /\ k6.state = "running"
  /\ k6.iterations < MaxRuns
  /\ crud[v].state # "running"
  /\ \E productId \in 1..ProductCount, quantity \in {1, 3}, outcome \in Outcomes,
        duration \in CrudDurations :
       LET req == Request("POST", <<"api", "cart", "items">>, getAuthHeaders(k6.token),
                          [productId |-> ToString(productId), quantity |-> quantity],
                          NoQuery)
           r == Respond(Db, req, outcome)
           success == r.status \in {200, 201} /\ r.body # NoBody
           i == Add(Sent([NoCrud EXCEPT !.state = "running"], req, r),
                    "crud_create_duration", duration) IN
       /\ ServerBecomes(r.db)
       /\ crud' = [crud EXCEPT ![v] =
                     [CrudSuccess(i, success) EXCEPT !.pc = "02_Read",
                                                     !.added = ToString(productId),
                                                     !.createdItemId = CreatedItemId(r)]]
  /\ Started
  /\ UNCHANGED <<registered, rateVars, pfVars, sh, flight, rand, lat, it>>

\* 02_Read: get the cart; the check parses the body inside a try
CrudRead(v) ==
  /\ crud[v].state = "running"
  /\ crud[v].pc = "02_Read"
  /\ \E outcome \in Outcomes, duration \in CrudDurations :
       LET req == Request("GET", <<"api", "cart">>, getAuthHeaders(k6.token), NoBody, NoQuery)
           r == Respond(Db, req, outcome)
           success == r.status = 200 /\ "items" \in DOMAIN r.body
           i == Add(Sent(crud[v], req, r), "crud_read_duration", duration) IN
       /\ ServerBecomes(r.db)
       /\ crud' = [crud EXCEPT ![v] = [CrudSuccess(i, success) EXCEPT !.pc = "03_Update"]]
  /\ UNCHANGED <<k6, registered, rateVars, pfVars, sh, flight, rand, lat, it>>

\* 03_Update (add more of same item): if (createdItemId) post it with quantity 5
CrudUpdate(v) ==
  /\ crud[v].state = "running"
  /\ crud[v].pc = "03_Update"
  /\ IF crud[v].createdItemId = ""
       THEN /\ crud' = [crud EXCEPT ![v].pc = "04_Delete"]
            /\ UNCHANGED <<dbVars, metrics>>
       ELSE \E outcome \in Outcomes, duration \in CrudDurations :
              LET req == Request("POST", <<"api", "cart", "items">>,
                                 getAuthHeaders(k6.token),
                                 [productId |-> crud[v].createdItemId, quantity |-> 5],
                                 NoQuery)
                  r == Respond(Db, req, outcome)
                  i == Add(Sent(crud[v], req, r), "crud_update_duration", duration) IN
              /\ ServerBecomes(r.db)
              /\ crud' = [crud EXCEPT ![v] =
                            [CrudSuccess(i, r.status = 200) EXCEPT
                               !.pc = "04_Delete", !.updated = req.body.productId]]
  /\ UNCHANGED <<k6, registered, rateVars, pfVars, sh, flight, rand, lat, it>>

\* 04_Delete (clear cart): http.del(`${BASE_URL}/api/cart`, null, { headers })
CrudDelete(v) ==
  /\ crud[v].state = "running"
  /\ crud[v].pc = "04_Delete"
  /\ \E outcome \in Outcomes, duration \in CrudDurations :
       LET req == Request("DELETE", <<"api", "cart">>, getAuthHeaders(k6.token),
                          NoBody, NoQuery)
           r == Respond(Db, req, outcome)
           i == Add(Sent(crud[v], req, r), "crud_delete_duration", duration) IN
       /\ ServerBecomes(r.db)
       /\ crud' = [crud EXCEPT ![v] =
                     [CrudSuccess(i, r.status \in {200, 204}) EXCEPT
                        !.pc = "", !.state = "completed"]]
  /\ UNCHANGED <<k6, registered, rateVars, pfVars, sh, flight, rand, lat, it>>

----------------------------------------------------------------------------
(* The server's steps *)

RECURSIVE Quantity(_)
\* the units of quantity of a list of cart lines
Quantity(items) ==
  IF items = <<>> THEN 0 ELSE items[1].quantity + Quantity(Tail(items))

RECURSIVE UnitsIn(_, _)
UnitsIn(map, keys) ==
  IF keys = {} THEN 0
  ELSE LET k == CHOOSE x \in keys : TRUE IN
       Quantity(map[k].items) + UnitsIn(map, keys \ {k})

\* the units of quantity held by all the carts of a Map
Units(map) == UnitsIn(map, DOMAIN map)

\* the state stays within the bounds of the model
Bounded(db) ==
  /\ Len(db.users) <= UserCount + MaxRegistered
  /\ Len(db.orders) <= MaxOrders
  /\ Units(db.carts) <= MaxUnits
  /\ db.errors <= MaxErrors

\* the server handles req: its state becomes the one the handler leaves
Do(req) ==
  \E r \in {Serve(Db, req)} :
    /\ Bounded(r.db)
    /\ ServerBecomes(r.db)
    /\ registered' = IF r.op = "POST /api/auth/register" /\ r.status = 201
                       THEN registered \cup {[email |-> req.body.email,
                                              password |-> req.body.password,
                                              id |-> r.body.user.id]}
                       ELSE registered
    /\ UNCHANGED <<rateVars, pfVars, sh, testVars>>

----------------------------------------------------------------------------
(* Requests in flight. Every handler starts with await simulateDbLatency(...): the
   request waits for a timer of its own and the rest of the handler, which has no
   other await, runs to its response when the timer fires. Timers of requests in
   flight fire in any order. *)

NoFlight == [pending |-> {}, done |-> <<>>, arrived |-> 0]

\* the requests sent concurrently: add-item and checkout by the clients, and
\* registrations with a new and with a seeded email
ConcurrentRequests ==
  {Request("POST", <<"api", "cart", "items">>, h, [productId |-> id, quantity |-> 1],
           NoQuery) : h \in ClientHeaders, id \in {"1", "2"}}
    \cup {Request("POST", <<"api", "orders">>, h, NoBody, NoQuery) : h \in ClientHeaders}
    \cup {Request("POST", <<"api", "auth", "register">>, NoAuth,
                  [email |-> e, password |-> p, name |-> "New"], NoQuery) :
            e \in {"user1@test.com", "new@test.com"}, p \in Passwords}

\* the handler is entered and awaits simulateDbLatency
Arrive(req) ==
  /\ flight.arrived < MaxArrivals
  /\ flight' = [flight EXCEPT !.arrived = @ + 1,
                              !.pending = @ \cup {[id |-> flight.arrived + 1, req |-> req]}]
  /\ UNCHANGED <<dbVars, metrics, registered, rateVars, pfVars, sh, lat, k6, it, crud, rand>>

\* the timer of a request in flight fires: the handler runs from its await to its
\* response on the database as it is now
Resume(p) ==
  /\ p \in flight.pending
  /\ LET r == Serve(Db, p.req) IN
       /\ ServerBecomes(r.db)
       /\ flight' = [flight EXCEPT
                       !.pending = @ \ {p},
                       !.done = Append(@, [id |-> p.id, req |-> p.req, op |-> r.op,
                                           status |-> r.status, user |-> r.user,
                                           during |-> {q.id : q \in flight.pending \ {p}}])]
  /\ UNCHANGED <<registered, rateVars, pfVars, sh, lat, k6, it, crud, rand>>

----------------------------------------------------------------------------
(* helpers.js randomInt, with its arguments and result in tenths *)

NoCall == [min |-> 0, max |-> 0, random |-> 0, value |-> 0]

\* the argument pairs the test scripts pass, in tenths: the sleeps, pages, product
\* ids and choices of baseline, purchase-flow, soak and stress, sleep(randomInt(0.1,
\* 0.5)) of stress and sleep(randomInt(0.5, 1.5)) of spike
RandomIntArguments ==
  {<<10, 20>>, <<10, 30>>, <<20, 40>>, <<20, 50>>, <<30, 60>>, <<0, 30>>, <<0, 40>>, <<0, 50>>,
   <<0, 190>>, <<10, 100>>, <<10, 200>>, <<10, 500>>, <<10, 1000>>, <<10, 5000>>,
   <<10, 10000>>, <<100, 1000>>, <<2000, 5000>>, <<1, 5>>, <<5, 15>>}

\* Math.floor(Math.random() * (max - min + 1)) + min, with Math.random() = k / RandomGrain
randomInt(min, max, k) == ((k * (max - min + 10)) \div (10 * RandomGrain)) * 10 + min

\* a script calls randomInt
CallRandomInt(args, k) ==
  /\ rand' = [min |-> args[1], max |-> args[2], random |-> k,
              value |-> randomInt(args[1], args[2], k)]
  /\ UNCHANGED <<dbVars, metrics, registered, rateVars, pfVars, sh, lat, k6, it, crud, flight>>

Init ==
  /\ \E rnd \in RandomDraws : products = generateProducts(ProductCount, rnd)
  /\ users = generateUsers(UserCount)
  /\ carts = [k \in {} |-> EmptyCart]
  /\ orders = <<>>
  /\ nextUuid = 0
  /\ metrics = [requests |-> 0, errors |-> 0]
  /\ registered = {}
  /\ rateLimiter = [k \in {} |-> <<>>]
  /\ now = 0
  /\ log = <<>>
  /\ vu = [v \in VUs |-> NewVu]
  /\ purchaseSuccess = 0
  /\ purchaseFailed = 0
  /\ hist = [created |-> 0, refused |-> 0, early |-> 0]
  /\ sh = [script |-> "", state |-> "idle", pc |-> 1, status |-> 0, ran |-> <<>>]
  /\ lat = [requests |-> 0, elapsed |-> 0, factor |-> Frac(1, 1),
            baseLatency |-> DB_LATENCY_MS, delay |-> Frac(0, 1)]
  /\ k6 = NoRun
  /\ it = NoIteration
  /\ crud = [v \in VUs |-> NoCrud]
  /\ flight = NoFlight
  /\ rand = NoCall

LoginRequest == \E req \in LoginRequests : Do(req)
RegisterRequest == \E req \in RegisterRequests : Do(req)
ProductsRequest == \E req \in ProductsRequests : Do(req)
ProductRequest == \E req \in ProductRequests : Do(req)
CartRequest == \E req \in CartRequests : Do(req)
AddItemRequest == \E req \in AddItemRequests : Do(req)
RemoveItemRequest == \E req \in RemoveItemRequests : Do(req)
ClearCartRequest == \E req \in ClearCartRequests : Do(req)
CheckoutRequest == \E req \in CheckoutRequests : Do(req)
OrdersRequest == \E req \in OrdersRequests : Do(req)
OrderRequest == \E req \in OrderRequests : Do(req)
SearchRequest == \E req \in SearchRequests : Do(req)
ReportRequest == \E req \in ReportRequests : Do(req)

Next ==
  \/ LoginRequest
  \/ RegisterRequest
  \/ ProductsRequest
  \/ ProductRequest
  \/ CartRequest
  \/ AddItemRequest
  \/ RemoveItemRequest
  \/ ClearCartRequest
  \/ CheckoutRequest
  \/ OrdersRequest
  \/ OrderRequest
  \/ SearchRequest
  \/ ReportRequest

Spec == Init /\ [][Next]_vars

\* the threshold expression 'count>0' over a Counter, at the final evaluation: a
\* metric with zero recorded samples has count 0 and fails it
CountAboveZero(count) == count > 0

\* thresholds: { ...THRESHOLDS, purchase_success: ['count>0'], checkout_duration: [...] }
\* the run passes when every threshold passes; others tells whether those on
\* http_req_duration, http_req_failed and checkout_duration do
PurchaseFlowPasses(others) == CountAboveZero(purchaseSuccess) /\ others

VuLoginStep == \E v \in VUs : VuLogin(v)
VuBrowseStep == \E v \in VUs : VuBrowse(v)
VuViewProductStep == \E v \in VUs : VuViewProduct(v)
VuAddToCartStep == \E v \in VUs : VuAddToCart(v)
VuViewCartStep == \E v \in VUs : VuViewCart(v)
VuCheckoutStep == \E v \in VUs : VuCheckout(v)
VuSkipCheckoutStep == \E v \in VUs : VuSkipCheckout(v)

\* a run of purchase-flow.js against the server
NextPF ==
  \/ VuLoginStep
  \/ VuBrowseStep
  \/ VuViewProductStep
  \/ VuAddToCartStep
  \/ VuViewCartStep
  \/ VuCheckoutStep
  \/ VuSkipCheckoutStep

SpecPF == Init /\ [][NextPF]_vars

InvokeStep == \E name \in {"run-all.sh", "run-quick.sh"} : Invoke(name)
HealthCheckStep == \E ok \in BOOLEAN : HealthCheck(ok)
K6RunStep == \E code \in K6ExitCodes : K6Run(code)

\* a run of one of the scripts
NextSh ==
  \/ InvokeStep
  \/ Echo
  \/ HealthCheckStep
  \/ K6RunStep
  \/ EndOfScript

SpecSh == Init /\ [][NextSh]_vars

setupStep == \E script \in Scripts : setup(script)

CrudCreateStep == \E v \in VUs : CrudCreate(v)
CrudReadStep == \E v \in VUs : CrudRead(v)
CrudUpdateStep == \E v \in VUs : CrudUpdate(v)
CrudDeleteStep == \E v \in VUs : CrudDelete(v)

\* a run of one of the k6 test scripts against the server
NextK6 ==
  \/ setupStep
  \/ StressIteration
  \/ Ramp
  \/ SpikeIteration
  \/ normalLogin
  \/ burstLogin
  \/ validateToken
  \/ BaselineIteration
  \/ SoakIteration
  \/ HelperCall
  \/ browserBehavior
  \/ shopperBehavior
  \/ buyerBehavior
  \/ SessionBrowse
  \/ SessionCheckout
  \/ CrudCreateStep
  \/ CrudReadStep
  \/ CrudUpdateStep
  \/ CrudDeleteStep

SpecK6 == Init /\ [][NextK6]_vars

NextLatency == Latency

SpecLatency == Init /\ [][NextLatency]_vars

ArriveStep == \E req \in ConcurrentRequests : Arrive(req)
ResumeStep == \E p \in flight.pending : Resume(p)

NextConc == ArriveStep \/ ResumeStep

SpecConc == Init /\ [][NextConc]_vars

NextRandom == \E args \in RandomIntArguments, k \in 0..(RandomGrain - 1) : CallRandomInt(args, k)

SpecRandom == Init /\ [][NextRandom]_vars

NextRate ==
  \/ Tick
  \/ \E ip \in IPs : HealthRequest(ip)

SpecRate == Init /\ [][NextRate]_vars

----------------------------------------------------------------------------
(* C1 *)

\* requests of ip passed to a handler in the RATE_WINDOW_MS milliseconds ending at t
HandledInWindow(ip, t) ==
  {i \in DOMAIN log : /\ log[i].ip = ip /\ log[i].handled
                      /\ log[i].time > t - RATE_WINDOW_MS /\ log[i].time <= t}

\* requests of log[i]'s address received in the window ending with request i, itself included
ReceivedBefore(i) ==
  {j \in 1..i : /\ log[j].ip = log[i].ip
                /\ log[j].time > log[i].time - RATE_WINDOW_MS}

\* C1: for every address and every instant t, at most RATE_LIMIT requests received in
\* the RATE_WINDOW_MS ms ending at t were passed to a route handler, and every request
\* that is beyond the limit in its window was answered 429 and reached no handler.
C1_RateLimit ==
  /\ \A ip \in IPs : \A t \in TimeGrid :
       t <= now => Cardinality(HandledInWindow(ip, t)) <= RATE_LIMIT
  /\ \A i \in DOMAIN log :
       Cardinality(ReceivedBefore(i)) > RATE_LIMIT
         => log[i].status = 429 /\ ~log[i].handled

\* a request was refused with RATE_LIMIT requests of its address passed on in its
\* window, and a later request of that address was passed on again
C1_Witness ==
  \E i, j \in DOMAIN log :
     /\ i < j /\ log[i].ip = log[j].ip
     /\ log[i].status = 429 /\ log[j].handled
     /\ Cardinality(HandledInWindow(log[i].ip, log[i].time)) = RATE_LIMIT

----------------------------------------------------------------------------
(* C2 - C7: the route handlers, in every reachable state of the server *)

\* the id of the client whose token the header carries, "" for any other header
ClientOf(h) ==
  IF \E i \in 1..NumClients : h = getAuthHeaders(TokenOf(i))
    THEN ToString(CHOOSE i \in 1..NumClients : h = getAuthHeaders(TokenOf(i)))
    ELSE ""

\* a JSON field that is absent or empty
Missing(body, f) == f \notin DOMAIN body \/ body[f] = ""

CatalogIds == {ToString(i) : i \in 1..ProductCount}

\* the quantity a cart holds of a product, over all its lines
QuantityOf(cart, productId) ==
  Quantity(SelectSeq(cart.items, LAMBDA l : l.productId = productId))

\* the lines of a cart for other products, in order
OtherLines(cart, productId) ==
  SelectSeq(cart.items, LAMBDA l : l.productId # productId)

\* the carts of every user but one
CartsBut(map, id) == [k \in DOMAIN map \ {id} |-> map[k]]

\* C2: POST /api/orders by an authenticated user whose stored cart holds at least one
\* item returns 201, appends exactly one order with status 'confirmed' whose items and
\* total are the cart's, and replaces the user's cart with an empty cart of total 0;
\* with no cart or an empty cart it returns 400, creates no order and changes no cart.
C2_Checkout ==
  \A req \in CheckoutRequests :
    LET u == ClientOf(req.auth)
        r == Serve(Db, req) IN
    u # "" =>
      IF u \in DOMAIN carts /\ Len(carts[u].items) >= 1
        THEN /\ r.status = 201
             /\ Len(r.db.orders) = Len(orders) + 1
             /\ SubSeq(r.db.orders, 1, Len(orders)) = orders
             /\ LET o == r.db.orders[Len(orders) + 1] IN
                  /\ o.status = "confirmed"
                  /\ o.userId = u
                  /\ o.items = carts[u].items
                  /\ o.total = carts[u].total
             /\ r.db.carts[u] = [items |-> <<>>, total |-> 0]
             /\ CartsBut(r.db.carts, u) = CartsBut(carts, u)
        ELSE /\ r.status = 400
             /\ r.db.orders = orders
             /\ r.db.carts = carts

\* an order was stored from a cart with items, and the cart of its user is empty
C2_Witness ==
  \E i \in DOMAIN orders :
    /\ orders[i].status = "confirmed" /\ Len(orders[i].items) >= 1
    /\ orders[i].userId \in DOMAIN carts
    /\ carts[orders[i].userId] = [items |-> <<>>, total |-> 0]

\* C3: POST /api/cart/items by an authenticated user with a productId of the catalog
\* returns 200 and leaves the user's cart holding that product with its previous
\* quantity plus the requested one (1 when omitted), no cart ever holding two lines
\* of one product; a missing productId gives 400, an unknown one 404, carts unchanged.
C3_AddToCart ==
  /\ \A u \in DOMAIN carts : \A i, j \in DOMAIN carts[u].items :
       carts[u].items[i].productId = carts[u].items[j].productId => i = j
  /\ \A req \in AddItemRequests :
       LET u == ClientOf(req.auth)
           b == req.body
           q == IF "quantity" \in DOMAIN b THEN b.quantity ELSE 1
           r == Serve(Db, req) IN
       u # "" =>
         IF Missing(b, "productId")
           THEN r.status = 400 /\ r.db.carts = carts
           ELSE IF b.productId \notin CatalogIds
             THEN r.status = 404 /\ r.db.carts = carts
             ELSE /\ r.status = 200
                  /\ u \in DOMAIN r.db.carts
                  /\ QuantityOf(r.db.carts[u], b.productId)
                       = QuantityOf(CartOf(Db, u), b.productId) + q
                  /\ Len(SelectSeq(r.db.carts[u].items,
                                   LAMBDA l : l.productId = b.productId)) = 1
                  /\ OtherLines(r.db.carts[u], b.productId)
                       = OtherLines(CartOf(Db, u), b.productId)
                  /\ CartsBut(r.db.carts, u) = CartsBut(carts, u)

\* a cart holds two products, one of them in a line of quantity 1 that a further
\* request for the same product merges into
C3_Witness ==
  \E u \in DOMAIN carts :
    /\ Len(carts[u].items) = 2
    /\ \E req \in AddItemRequests :
         /\ ClientOf(req.auth) = u
         /\ ~Missing(req.body, "productId")
         /\ QuantityOf(carts[u], req.body.productId) = 1
         /\ Serve(Db, req).status = 200
         /\ Len(Serve(Db, req).db.carts[u].items) = 2

\* C4: POST /api/auth/login returns 200 with a token carrying the user's id and email
\* exactly when the email is a stored user's and the password is that user's (so for
\* every seeded userN@test.com / password123), 400 when email or password is missing,
\* 401 otherwise, and never changes users, carts or orders.
C4_Login ==
  /\ \A req \in LoginRequests :
       LET b == req.body
           r == Serve(Db, req) IN
       /\ r.db.users = users /\ r.db.carts = carts /\ r.db.orders = orders
       /\ IF Missing(b, "email") \/ Missing(b, "password")
            THEN r.status = 400
            ELSE IF \E i \in DOMAIN users :
                      users[i].email = b.email /\ users[i].password = b.password
              THEN /\ r.status = 200
                   /\ jwtVerify(r.body.token)
                   /\ \E i \in DOMAIN users :
                        /\ users[i].email = b.email /\ users[i].password = b.password
                        /\ r.body.token.id = users[i].id
                        /\ r.body.token.email = users[i].email
              ELSE r.status = 401
  /\ \A n \in 1..UserCount :
       LET r == Serve(Db, LoginRequestFor("user" \o ToString(n) \o "@test.com",
                                          "password123")) IN
       r.status = 200 /\ r.body.token.id = ToString(n)

\* with carts and orders stored and a user registered, one login is answered 200,
\* one 401 for a stored email with another password, and one 400
C4_Witness ==
  /\ orders # <<>> /\ DOMAIN carts # {} /\ Len(users) > UserCount
  /\ \E req \in LoginRequests :
       /\ Serve(Db, req).status = 200
       /\ req.body.email = users[Len(users)].email
  /\ \E req \in LoginRequests :
       /\ Serve(Db, req).status = 401
       /\ \E i \in DOMAIN users : users[i].email = req.body.email
  /\ \E req \in LoginRequests : Serve(Db, req).status = 400

\* C5: after POST /api/auth/register returned 201 for (email, password, name), every
\* later login with that email and password returns 200 with a token for the id the
\* registration returned; a registration with a missing field returns 400, one with a
\* stored email 409, and neither adds a user.
C5_RegisterLogin ==
  /\ \A x \in registered :
       LET r == Serve(Db, LoginRequestFor(x.email, x.password)) IN
       r.status = 200 /\ r.body.token.id = x.id /\ r.body.user.id = x.id
  /\ \A req \in RegisterRequests :
       LET b == req.body
           r == Serve(Db, req) IN
       IF Missing(b, "email") \/ Missing(b, "password") \/ Missing(b, "name")
         THEN r.status = 400 /\ r.db.users = users
         ELSE IF \E i \in DOMAIN users : users[i].email = b.email
           THEN r.status = 409 /\ r.db.users = users
           ELSE /\ r.status = 201
                /\ Len(r.db.users) = Len(users) + 1
                /\ SubSeq(r.db.users, 1, Len(users)) = users
                /\ r.db.users[Len(users) + 1].id = r.body.user.id
                /\ r.body.token.id = r.body.user.id

\* a registration was answered 201 for a password that is not the seeded one, and
\* the server has handled an order since
C5_Witness ==
  /\ \E x \in registered : x.password # "password123"
  /\ orders # <<>>
  /\ \E req \in RegisterRequests : Serve(Db, req).status = 409 /\ req.body.email = "new@test.com"

\* C6: a DELETE /api/cart request carrying a valid bearer token, sent when the
\* caller's cart holds an item, is answered 200 or 204 and clears the caller's cart.
C6_DeleteClearsCart ==
  \A req \in ClearCartRequests :
    LET u == ClientOf(req.auth)
        r == Serve(Db, req) IN
    (u # "" /\ Len(CartOf(Db, u).items) >= 1) =>
      /\ r.status \in {200, 204}
      /\ Len(CartOf(r.db, u).items) = 0

\* C7: GET /api/products/:id returns 200 with the product for every id '1'..'N' of the
\* generated catalog and 404 for any other id: the catalog holds exactly these ids
\* and no request to any endpoint, order creation included, adds, removes or
\* modifies a product.
C7_Catalog ==
  /\ \E rnd \in RandomDraws : products = generateProducts(ProductCount, rnd)
  /\ {products[i].id : i \in DOMAIN products} = CatalogIds
  /\ \A req \in AllRequests : Serve(Db, req).db.products = products
  /\ \A req \in ProductRequests :
       LET id == req.path[3]
           r == Serve(Db, req) IN
       IF id \in CatalogIds
         THEN r.status = 200 /\ r.body \in Range(products) /\ r.body.id = id
         ELSE r.status = 404

\* an order was created and a user registered, and the products are still served
C7_Witness ==
  /\ orders # <<>> /\ Len(users) > UserCount
  /\ \A req \in ProductRequests :
       req.path[3] = ToString(ProductCount) => Serve(Db, req).status = 200

----------------------------------------------------------------------------
(* C8, C9: the purchase-flow test *)

\* every virtual user has run its iterations
RunEnded == \A v \in VUs : vu[v].pc = "done"

\* C8: VU 1 attempts checkout in every iteration that gets past login and browsing,
\* and whenever VU 1 has completed an iteration in which every request reached its
\* handler (none rate-limited, none failed in transport), the checkout of that
\* iteration returned 201 and purchase_success is at least 1 from then on.
C8_FirstVuPurchases ==
  \A i \in DOMAIN vu[1].runs :
    LET run == vu[1].runs[i] IN
    /\ run.past => run.checkout # -1
    /\ run.clean => run.past /\ run.checkout = 201 /\ purchaseSuccess >= 1

\* VU 1 completed an iteration without a refused request and its checkout returned
\* 201, while another virtual user checked out as well
C8_Witness ==
  /\ RunEnded
  /\ \E i \in DOMAIN vu[1].runs : vu[1].runs[i].clean /\ vu[1].runs[i].checkout = 201
  /\ \E v \in VUs \ {1} : \E j \in DOMAIN vu[v].runs : vu[v].runs[j].checkout = 201

----------------------------------------------------------------------------
(* C10: the exit status of the scripts *)

\* C10: run-all.sh and run-quick.sh exit with status 0 when every test they ran
\* passed its thresholds, and with a non-zero status when a test they ran failed a
\* threshold (k6 run exited with 99).
C10_ExitStatusReportsThresholds ==
  (sh.state = "exited" /\ sh.ran # <<>>) =>
    IF \A i \in DOMAIN sh.ran : sh.ran[i].code # 99
      THEN (\A i \in DOMAIN sh.ran : sh.ran[i].code = 0) => sh.status = 0
      ELSE sh.status # 0

----------------------------------------------------------------------------
(* C14, C15: authentication and user isolation *)

\* the requests to the cart, order and sales-report endpoints
ProtectedRequests ==
  CartRequests \cup AddItemRequests \cup RemoveItemRequests \cup CheckoutRequests
    \cup OrdersRequests \cup OrderRequests \cup ReportRequests

\* C14: every request to a cart, order or sales-report endpoint whose Authorization
\* header is missing, is not a Bearer header, or carries a token that fails
\* verification is answered 401 and leaves users, carts and orders unchanged.
C14_Unauthorized ==
  \A req \in ProtectedRequests :
    LET r == Serve(Db, req) IN
    req.auth \in BadHeaders =>
      /\ r.status = 401
      /\ r.db.users = users /\ r.db.carts = carts /\ r.db.orders = orders

\* user 1 holds a cart with an item and an order is stored, and a checkout with an
\* expired token of user 1 is refused, as are the other protected endpoints
C14_Witness ==
  /\ orders # <<>>
  /\ "1" \in DOMAIN carts /\ Len(carts["1"].items) >= 1
  /\ \E req \in CheckoutRequests :
       /\ req.auth.scheme = "Bearer" /\ req.auth.token.id = "1" /\ req.auth.token.expired
       /\ Serve(Db, req).status = 401
  /\ \A route \in {"GET /api/cart", "POST /api/cart/items",
                   "DELETE /api/cart/items/:productId", "POST /api/orders",
                   "GET /api/orders", "GET /api/orders/:id", "GET /api/reports/sales"} :
       \E req \in ProtectedRequests :
         req.auth \in BadHeaders /\ RouteOf(req.method, req.path) = route

\* what user u owns of the server's state: u's cart and u's orders
OwnedBy(db, u) ==
  [db EXCEPT !.carts = [k \in DOMAIN db.carts \cap {u} |-> db.carts[k]],
             !.orders = SelectSeq(db.orders, LAMBDA o : o.userId = u)]

\* the orders that are not u's
OrdersOfOthers(list, u) == SelectSeq(list, LAMBDA o : o.userId # u)

\* the requests to the cart and order endpoints
CartAndOrderRequests ==
  CartRequests \cup AddItemRequests \cup RemoveItemRequests \cup CheckoutRequests
    \cup OrdersRequests \cup OrderRequests

\* C15: a cart or order request authenticated as user A gets the response it would
\* get if the server held A's cart and A's orders only (it reads nothing of another
\* user), changes no cart but A's, changes no stored order and creates orders of A
\* only; GET /api/orders returns exactly A's orders and GET /api/orders/:id is 404
\* for the id of another user's order.
C15_UserIsolation ==
  \A req \in CartAndOrderRequests :
    LET u == ClientOf(req.auth)
        r == Serve(Db, req)
        route == RouteOf(req.method, req.path) IN
    u # "" =>
      /\ r.status = Serve(OwnedBy(Db, u), req).status
      /\ r.body = Serve(OwnedBy(Db, u), req).body
      /\ CartsBut(r.db.carts, u) = CartsBut(carts, u)
      /\ SubSeq(r.db.orders, 1, Len(orders)) = orders
      /\ OrdersOfOthers(r.db.orders, u) = OrdersOfOthers(orders, u)
      /\ route = "GET /api/orders" =>
           r.body.data = SelectSeq(orders, LAMBDA o : o.userId = u)
      /\ route = "GET /api/orders/:id" =>
           ((\E i \in DOMAIN orders : orders[i].id = req.path[3] /\ orders[i].userId # u)
              => r.status = 404)

\* one client has an order and a cart with an item, and another client asks for
\* that order by its id and for its own orders and cart
C15_Witness ==
  \E a, b \in {ToString(i) : i \in 1..NumClients} :
    /\ a # b
    /\ \E i \in DOMAIN orders : orders[i].userId = b
    /\ b \in DOMAIN carts /\ Len(carts[b].items) >= 1
    /\ \E req \in OrderRequests :
         /\ ClientOf(req.auth) = a
         /\ \E i \in DOMAIN orders : orders[i].id = req.path[3]
         /\ Serve(Db, req).status = 404

----------------------------------------------------------------------------
(* C13: degradation under load *)

\* the request rate is at or below DEGRADATION_THRESHOLD requests per second
AtOrBelowThreshold(requests, elapsed) ==
  elapsed # 0 /\ requests * 1000 <= DEGRADATION_THRESHOLD * elapsed

\* the request rate of the first pair is at most that of the second
RateLeq(requests1, elapsed1, requests2, elapsed2) ==
  requests1 * elapsed2 <= requests2 * elapsed1

\* C13: the latency multiplier simulateDbLatency applied is 1 while the request rate
\* is at or below DEGRADATION_THRESHOLD and otherwise rate / DEGRADATION_THRESHOLD
\* capped at 5; it is never below 1, never above 5, and no call at a higher request
\* rate gets a smaller multiplier.
C13_Degradation ==
  LET f == lat.factor
      rate == Frac(lat.requests * 1000, lat.elapsed)
      ratio == Frac(lat.requests * 1000, lat.elapsed * DEGRADATION_THRESHOLD) IN
  lat.requests > 0 =>
    /\ AtOrBelowThreshold(lat.requests, lat.elapsed) => FracEq(f, Frac(1, 1))
    /\ ~AtOrBelowThreshold(lat.requests, lat.elapsed) =>
         IF lat.elapsed # 0 /\ FracLeq(ratio, Frac(5, 1))
           THEN FracEq(f, ratio)
           ELSE FracEq(f, Frac(5, 1))
    /\ FracLeq(Frac(1, 1), f) /\ FracLeq(f, Frac(5, 1))
    /\ \A requests \in 1..MaxLoad, elapsed \in ElapsedTimes :
         RateLeq(lat.requests, lat.elapsed, requests, elapsed)
           => FracLeq(f, degradationFactor(requests, elapsed))
    /\ lat.delay \in {Frac(lat.baseLatency * f.n + random * f.d, f.d) : random \in 0..4}

\* a call above the threshold and below the cap, with a multiplier strictly
\* between 1 and 5
C13_Witness ==
  /\ lat.requests > 0
  /\ ~AtOrBelowThreshold(lat.requests, lat.elapsed)
  /\ ~FracLeq(lat.factor, Frac(1, 1))
  /\ ~FracLeq(Frac(5, 1), lat.factor)

----------------------------------------------------------------------------
(* C12: the purchase_success threshold *)

\* C12: at the end of a purchase-flow run in which no checkout request returned 201,
\* purchase_success has no sample, its threshold count>0 fails and the run fails
\* whatever the other thresholds do.
C12_NoPurchaseFailsRun ==
  (RunEnded /\ hist.created = 0) =>
    /\ purchaseSuccess = 0
    /\ ~CountAboveZero(purchaseSuccess)
    /\ \A others \in BOOLEAN : ~PurchaseFlowPasses(others)

\* a run ended in which checkouts were sent and none returned 201
C12_Witness ==
  /\ RunEnded
  /\ hist.created = 0
  /\ hist.refused >= 1
  /\ ~PurchaseFlowPasses(TRUE)

----------------------------------------------------------------------------
(* C16, C18: the spike and stress iterations *)

\* the iteration in it has ended: its function returned or threw
IterationEnded(fn) == it.fn = fn /\ it.state \in {"completed", "threw"}

\* the samples an iteration added to a metric
SamplesOf(i, metric) == SelectSeq(i.samples, LAMBDA x : x.metric = metric)

\* C16: a spike-test iteration uses the spike-period behaviour (search or 50-item
\* listing, 0.1 s sleep) exactly when more than 50 virtual users are active at the
\* time, and the normal behaviour (20-item listing) exactly when 50 or fewer are.
C16_SpikeWhenManyActive ==
  (it.fn = "spike" /\ it.state = "completed") =>
    IF it.active > SpikeVUs
      THEN /\ it.behaviour = "spike"
           /\ it.sleep = 100
           /\ \/ it.requests[1].path = <<"api", "search">>
              \/ it.requests[1].path = <<"api", "products">>
      ELSE /\ it.behaviour = "normal"
           /\ it.requests[1].path = <<"api", "products">>

\* C18: every stress-test iteration sends one request and adds one sample to
\* response_time_trend and one to error_rate, an error exactly for a status of 400
\* or more; it adds to degraded_responses exactly when the duration is above
\* 500 ms and the response is no error.
C18_StressIterationSamples ==
  IterationEnded("stress") =>
    /\ Len(it.requests) = 1
    /\ Len(SamplesOf(it, "response_time_trend")) = 1
    /\ Len(SamplesOf(it, "error_rate")) = 1
    /\ SamplesOf(it, "error_rate")[1].value = 1 <=> it.requests[1].status >= 400
    /\ Len(SamplesOf(it, "degraded_responses")) =
         IF /\ SamplesOf(it, "response_time_trend")[1].value > DEGRADATION_THRESHOLD_MS
            /\ it.requests[1].status < 400
           THEN 1 ELSE 0

----------------------------------------------------------------------------
(* C20: the login iterations of the auth stress test *)

\* C20: every normalLogin and burstLogin iteration sends one login request and adds
\* one sample to auth_login_duration and one to auth_error_rate; normalLogin adds
\* to exactly one of auth_login_success and auth_login_failed; after a 429
\* burstLogin adds a non-error sample and counts neither a failed nor a
\* successful login.
C20_LoginIterations ==
  /\ (it.fn \in {"normalLogin", "burstLogin"} /\ it.state # "running") =>
       /\ it.state = "completed"
       /\ Len(it.requests) = 1
       /\ it.requests[1].method = "POST"
       /\ it.requests[1].path = <<"api", "auth", "login">>
       /\ Len(SamplesOf(it, "auth_login_duration")) = 1
       /\ Len(SamplesOf(it, "auth_error_rate")) = 1
  /\ IterationEnded("normalLogin") =>
       Len(SamplesOf(it, "auth_login_success")) + Len(SamplesOf(it, "auth_login_failed")) = 1
  /\ (IterationEnded("burstLogin") /\ it.requests[1].status = 429) =>
       /\ SamplesOf(it, "auth_error_rate")[1].value = 0
       /\ SamplesOf(it, "auth_login_failed") = <<>>
       /\ SamplesOf(it, "auth_login_success") = <<>>

\* a burstLogin iteration that was rate limited, the second iteration of the run
C20_Witness ==
  /\ IterationEnded("burstLogin")
  /\ it.requests[1].status = 429
  /\ Len(it.samples) = 2
  /\ k6.iterations = 2

----------------------------------------------------------------------------
(* C19: conversion_rate in the mixed workload *)

\* C19: every iteration of browserBehavior, shopperBehavior and buyerBehavior adds
\* exactly one sample to conversion_rate, also when its login fails or it finds no
\* products; the sample is a conversion only for a buyerBehavior iteration whose
\* checkout request was answered 201.
C19_OneConversionSample ==
  (it.fn \in {"browserBehavior", "shopperBehavior", "buyerBehavior"}
     /\ it.state \in {"completed", "threw"}) =>
    /\ Len(SamplesOf(it, "conversion_rate")) = 1
    /\ SamplesOf(it, "conversion_rate")[1].value = 1 =>
         /\ it.fn = "buyerBehavior"
         /\ it.requests[Len(it.requests)].path = <<"api", "orders">>
         /\ it.requests[Len(it.requests)].status = 201

----------------------------------------------------------------------------
(* C17: the update step of api-crud *)

\* C17: in every api-crud iteration whose create step succeeded, the update step
\* posts quantity 5 for the product this iteration's create step posted, whatever
\* earlier iterations and concurrent virtual users did to the cart of user1.
C17_UpdateSameItem ==
  \A v \in VUs :
    (crud[v].state # "none" /\ crud[v].requests[1].status = 200 /\ crud[v].updated # "")
      => crud[v].updated = crud[v].added

----------------------------------------------------------------------------
(* C11: a run whose setup() obtained no token *)

\* the iteration functions whose script logs in in setup()
TokenUsers == {"baseline", "stress", "spike", "soak", "validateToken"}

\* C11: in a run whose setup() obtained no token (login returned null) the
\* iterations run and none throws: baseline, stress, spike and soak iterations send
\* their requests without Authorization header, soak sending none to the cart,
\* validateToken returns without a request, and api-crud iterations send their
\* create, read and delete requests and record failed checks only.
C11_SetupFailureRecoverable ==
  /\ (k6.state = "running" /\ k6.token = NoToken /\ it.fn \in TokenUsers) =>
       /\ it.state # "threw"
       /\ \A n \in DOMAIN it.requests :
            /\ it.requests[n].auth = HEADERS
            /\ it.requests[n].path # <<"api", "cart">>
            /\ it.requests[n].path # <<"api", "cart", "items">>
       /\ it.fn = "validateToken" => it.requests = <<>> /\ it.samples = <<>>
  /\ (k6.state = "running" /\ k6.token = NoToken /\ k6.script = "api-crud") =>
       \A v \in VUs :
         crud[v].state = "completed" =>
           /\ Len(crud[v].requests) = 3
           /\ \A n \in 1..3 : crud[v].requests[n].status # 200
           /\ \A n \in DOMAIN crud[v].samples :
                crud[v].samples[n].metric = "crud_success_rate"
                  => crud[v].samples[n].value = 0

----------------------------------------------------------------------------
(* C21: what the token-validation scenario validates *)

\* the request of validateToken: GET /api/products with Authorization: Bearer token
ValidationRequest(h) == Request("GET", <<"api", "products">>, h, NoBody, NoQuery)

\* C21: the request of the token-validation scenario is answered 200 with a token
\* login returned and is rejected with a Bearer token that is invalid (signed
\* with another secret, or expired).
C21_TokenValidated ==
  \A h \in Headers :
    h.scheme = "Bearer" =>
      (Serve(Db, ValidationRequest(h)).status = 200 <=> h \in ClientHeaders)

----------------------------------------------------------------------------
(* C22: the sequence of run-all.sh *)

\* the tests of run-all.sh in the order of the script
RunAllTests == <<"tests/load/baseline.js", "tests/load/purchase-flow.js",
                 "tests/spike/sudden-traffic.js", "tests/stress/breaking-point.js">>

\* C22: run-all.sh that ends at a failed health check has run no test and exits
\* with status 1; otherwise the tests it has run so far are the first ones of
\* baseline, purchase-flow, spike, stress, in that order and one at a time, and it
\* ends only after all four, whatever the exit status of each.
C22_RunAllSequence ==
  sh.script = "run-all.sh" =>
    /\ Len(sh.ran) <= Len(RunAllTests)
    /\ \A i \in DOMAIN sh.ran : sh.ran[i].test = RunAllTests[i]
    /\ sh.state = "exited" =>
         IF sh.ran = <<>>
           THEN sh.status = 1 /\ Command.cmd = "health"
           ELSE Len(sh.ran) = Len(RunAllTests) /\ sh.pc > Len(RunAll)

\* run-all.sh ended after four tests, the first of which failed a threshold and
\* the second of which threw
C22_Witness ==
  /\ sh.script = "run-all.sh"
  /\ sh.state = "exited"
  /\ Len(sh.ran) = 4
  /\ sh.ran[1].code = 99
  /\ sh.ran[2].code = 107
  /\ sh.ran[4].test = "tests/stress/breaking-point.js"

----------------------------------------------------------------------------
(* C25: the total of a stored cart *)

RECURSIVE LinesTotal(_)
\* the sum of price x quantity over the lines of a cart, in cents
LinesTotal(items) ==
  IF items = <<>> THEN 0
  ELSE items[1].price * items[1].quantity + LinesTotal(Tail(items))

\* C25: after any sequence of add-item, delete-item and checkout requests the total
\* of every stored cart is the sum of price x quantity over its lines; DELETE
\* /api/cart/items/:productId by an authenticated user removes exactly the lines of
\* that productId from the user's cart (the others kept in order, the other carts
\* untouched), and returns 404 and changes no cart when the user has no stored cart.
C25_CartTotal ==
  /\ \A u \in DOMAIN carts : carts[u].total = LinesTotal(carts[u].items)
  /\ \A req \in RemoveItemRequests :
       LET u == ClientOf(req.auth)
           id == req.path[4]
           r == Serve(Db, req) IN
       u # "" =>
         IF u \notin DOMAIN carts
           THEN r.status = 404 /\ r.db.carts = carts
           ELSE /\ r.status = 200
                /\ DOMAIN r.db.carts = DOMAIN carts
                /\ r.db.carts[u].items = OtherLines(carts[u], id)
                /\ r.db.carts[u].total = LinesTotal(OtherLines(carts[u], id))
                /\ CartsBut(r.db.carts, u) = CartsBut(carts, u)

\* a client's stored cart holds lines of two products, and deleting one of them
\* leaves the other with a total above zero; another client, with no stored cart,
\* is answered 404
C25_Witness ==
  /\ \E h \in ClientHeaders :
       LET u == ClientOf(h)
           r == Serve(Db, Request("DELETE", <<"api", "cart", "items", "1">>, h,
                                  NoBody, NoQuery)) IN
       /\ u \in DOMAIN carts
       /\ Len(carts[u].items) = 2
       /\ r.status = 200
       /\ Len(r.db.carts[u].items) = 1
       /\ r.db.carts[u].total > 0
       /\ r.db.carts[u].total < carts[u].total
  /\ \E h \in ClientHeaders :
       /\ ClientOf(h) \notin DOMAIN carts
       /\ Serve(Db, Request("DELETE", <<"api", "cart", "items", "1">>, h,
                            NoBody, NoQuery)).status = 404

----------------------------------------------------------------------------
(* C23: no double purchase under concurrent add-item and checkout requests *)

\* the answered request is an add-item of user u that was accepted
AddedAt(k, u) ==
  /\ flight.done[k].op = "POST /api/cart/items"
  /\ flight.done[k].status = 200
  /\ flight.done[k].user = u

\* the answered request is a checkout of user u
CheckoutAt(k, u) ==
  /\ flight.done[k].op = "POST /api/orders"
  /\ flight.done[k].user = u

RECURSIVE UnitsAdded(_, _, _)
\* the units of a product the first n answered requests added to the cart of user u
UnitsAdded(n, u, productId) ==
  IF n = 0 THEN 0
  ELSE UnitsAdded(n - 1, u, productId)
         + (IF AddedAt(n, u) /\ flight.done[n].req.body.productId = productId
              THEN flight.done[n].req.body.quantity ELSE 0)

RECURSIVE UnitsOrdered(_, _, _)
\* the units of a product held by the first n stored orders, for those of user u
UnitsOrdered(n, u, productId) ==
  IF n = 0 THEN 0
  ELSE UnitsOrdered(n - 1, u, productId)
         + (IF orders[n].userId = u THEN QuantityOf(orders[n], productId) ELSE 0)

\* C23: whatever the order in which concurrent POST /api/cart/items and POST
\* /api/orders requests of a user are answered, every unit added is in the user's
\* cart or in exactly one order, never in two; a checkout is answered 201 when an
\* add-item of the user was answered since the user's previous checkout and 400
\* otherwise, so of two checkouts of one cart with no add between them the first
\* is answered 201 and the second 400.
C23_NoDoublePurchase ==
  \A i \in 1..NumClients :
    LET u == ToString(i) IN
    /\ \A productId \in {"1", "2"} :
         UnitsOrdered(Len(orders), u, productId) + QuantityOf(CartOf(Db, u), productId)
           = UnitsAdded(Len(flight.done), u, productId)
    /\ \A j \in DOMAIN flight.done :
         CheckoutAt(j, u) =>
           IF \E k \in 1..(j - 1) :
                AddedAt(k, u) /\ \A m \in (k + 1)..(j - 1) : ~CheckoutAt(m, u)
             THEN flight.done[j].status = 201
             ELSE flight.done[j].status = 400

\* two checkouts of a user were in flight together after an add-item of that user:
\* the first answered got 201 and the second 400, and the order holds the unit
C23_Witness ==
  /\ Len(flight.done) = 3
  /\ Len(orders) = 1
  /\ AddedAt(1, "1")
  /\ CheckoutAt(2, "1") /\ flight.done[2].status = 201
  /\ CheckoutAt(3, "1") /\ flight.done[3].status = 400
  /\ flight.done[3].id \in flight.done[2].during
  /\ QuantityOf(orders[1], flight.done[1].req.body.productId) = 1

----------------------------------------------------------------------------
(* C24: emails stay unique under concurrent registrations *)

\* the answered request is a registration with this email
RegisteredAt(k, email) ==
  /\ flight.done[k].op = "POST /api/auth/register"
  /\ flight.done[k].req.body.email = email

\* C24: whatever the order in which concurrent registrations are answered, no two
\* stored users share an email; of the registrations answered for one email that
\* no user had, the first is answered 201 and every other 409, and a registration
\* with the email of a seeded user is answered 409.
C24_UniqueEmails ==
  /\ \A i, j \in DOMAIN users : users[i].email = users[j].email => i = j
  /\ \A k \in DOMAIN flight.done :
       LET email == flight.done[k].req.body.email IN
       flight.done[k].op = "POST /api/auth/register" =>
         IF /\ \A i \in 1..UserCount : generateUsers(UserCount)[i].email # email
            /\ \A m \in 1..(k - 1) : ~RegisteredAt(m, email)
           THEN flight.done[k].status = 201
           ELSE flight.done[k].status = 409

\* three registrations with one new email were in flight together: one was
\* answered 201, the two others 409, and one user is stored with the email
C24_Witness ==
  /\ Len(flight.done) = 3
  /\ \A k \in 1..3 : RegisteredAt(k, "new@test.com")
  /\ flight.done[1].status = 201
  /\ flight.done[2].status = 409 /\ flight.done[3].status = 409
  /\ {flight.done[2].id, flight.done[3].id} \subseteq flight.done[1].during
  /\ flight.done[1].req.body.password # flight.done[2].req.body.password
  /\ Len(users) = UserCount + 1

----------------------------------------------------------------------------
(* C26: the range of randomInt *)

\* C26: for every argument pair the scripts pass, the sleeps randomInt(0.1, 0.5) of
\* stress and randomInt(0.5, 1.5) of spike included, the value randomInt(min, max)
\* returns satisfies min <= value <= max.
C26_RandomIntInRange ==
  rand # NoCall => rand.min <= rand.value /\ rand.value <= rand.max

====
